---- MODULE Spec2Model ----
(***************************************************************************)
(* Model of the Financial Health Analyzer (src/app.py, src/login_system.py) *)
(*                                                                         *)
(* Part 1  numbers: a decimal floating-point model of the numpy float64 /  *)
(*         Python numbers the calculators compute with                     *)
(* Part 2  the field resolver: is_problematic, safe_get                    *)
(* Part 3  the score calculators as state machines                         *)
(* Part 4  the calls, the data-provider answers, the login system, the     *)
(*         runs of main, the specifications                                *)
(* Part 5  the properties checked                                          *)
(***************************************************************************)
EXTENDS Integers, Sequences, FiniteSets, TLC

(***************************************************************************)
(* Part 1.  Numbers.                                                       *)
(*                                                                         *)
(* A number is a record [k, m, e, np]:                                     *)
(*   k = "fin"   the finite value m * 10^e, with m = 0 (and e = 0) or      *)
(*               10^7 <= |m| < 10^8 (eight significant decimal digits)     *)
(*   k = "inf" / "ninf" / "nan"   the IEEE-754 specials                    *)
(*   k = "none"  Python's None                                             *)
(*   k = "exc"   evaluating the expression raised an exception             *)
(*   np          TRUE for a numpy scalar (arithmetic never raises: a       *)
(*               division by zero or a log of a non-positive number gives  *)
(*               inf / nan and a warning), FALSE for a native Python       *)
(*               number (int / float: division by zero raises).            *)
(* The exponent range is that of a float64: a result above 1.7976931e308   *)
(* becomes inf, one below 2.47e-324 becomes 0.  The mantissa is shorter    *)
(* than a float64's (8 decimal digits against 53 bits), zero is unsigned.  *)
(***************************************************************************)

MantLo == 10 ^ 7
MantHi == 10 ^ 8

Abs(n) == IF n < 0 THEN -n ELSE n
Sgn(n) == IF n < 0 THEN -1 ELSE IF n = 0 THEN 0 ELSE 1

Special(kind, isNp) == [k |-> kind, m |-> 0, e |-> 0, np |-> isNp]
NaN == Special("nan", TRUE)
PInf == Special("inf", TRUE)
NInf == Special("ninf", TRUE)
None == Special("none", FALSE)
Exc == Special("exc", FALSE)
PyZero == [k |-> "fin", m |-> 0, e |-> 0, np |-> FALSE]
Zero == [k |-> "fin", m |-> 0, e |-> 0, np |-> TRUE]

\* number of decimal digits of n > 0 (n < 2^31)
Digits(n) ==
    IF n < 10 ^ 5
    THEN IF n < 10 ^ 2 THEN (IF n < 10 THEN 1 ELSE 2)
         ELSE IF n < 10 ^ 3 THEN 3 ELSE IF n < 10 ^ 4 THEN 4 ELSE 5
    ELSE IF n < 10 ^ 7 THEN (IF n < 10 ^ 6 THEN 6 ELSE 7)
         ELSE IF n < 10 ^ 8 THEN 8 ELSE IF n < 10 ^ 9 THEN 9 ELSE 10

\* n / p rounded to nearest, halves away from zero (p > 0)
RoundDiv(n, p) == Sgn(n) * ((Abs(n) + p \div 2) \div p)

\* the float64 range applied to a normalised m * 10^e
Ranged(m, e, isNp) ==
    IF e > 301 \/ (e = 301 /\ Abs(m) > 17976931)
    THEN Special(IF m < 0 THEN "ninf" ELSE "inf", isNp)
    ELSE IF e < -331 \/ (e = -331 /\ Abs(m) < 24703282)
         THEN [k |-> "fin", m |-> 0, e |-> 0, np |-> isNp]
         ELSE [k |-> "fin", m |-> m, e |-> e, np |-> isNp]

\* r * 10^e for |r| <= 10^8, where |r| = 10^8 is the carry of a rounding
NormCarry(r, e, isNp) ==
    Ranged(IF Abs(r) = MantHi THEN Sgn(r) * MantLo ELSE r,
           IF Abs(r) = MantHi THEN e + 1 ELSE e, isNp)

\* m * 10^e for an m of d digits
NormDigits(m, e, isNp, d) ==
    NormCarry(IF d <= 8 THEN m * 10 ^ (8 - d) ELSE RoundDiv(m, 10 ^ (d - 8)),
              e + d - 8, isNp)

\* the number nearest to m * 10^e, for any integer m
Norm(m, e, isNp) ==
    IF m = 0 THEN [k |-> "fin", m |-> 0, e |-> 0, np |-> isNp]
    ELSE NormDigits(m, e, isNp, Digits(Abs(m)))

\* a numpy float64 literal m * 10^e, and an integer as a float64
F(m, e) == Norm(m, e, TRUE)
FInt(n) == Norm(n, 0, TRUE)
\* a native Python number
Py(m, e) == Norm(m, e, FALSE)

IsFin(x) == x.k = "fin"
IsNum(x) == x.k \in {"fin", "inf", "ninf", "nan"}
IsZero(x) == x.k = "fin" /\ x.m = 0
\* -1, 0, 1 for a finite or infinite number
SignOf(x) == IF x.k = "inf" THEN 1 ELSE IF x.k = "ninf" THEN -1 ELSE Sgn(x.m)
InfOfSign(s, isNp) == Special(IF s < 0 THEN "ninf" ELSE "inf", isNp)

\* an operand that makes any arithmetic raise (an exception already raised,
\* or TypeError on None)
Raises(a, b) == a.k \in {"exc", "none"} \/ b.k \in {"exc", "none"}

FNeg(a) ==
    CASE a.k \in {"exc", "none"} -> Exc
      [] a.k = "inf" -> Special("ninf", a.np)
      [] a.k = "ninf" -> Special("inf", a.np)
      [] OTHER -> [a EXCEPT !.m = -a.m]

FAbs(a) ==
    CASE a.k \in {"exc", "none"} -> Exc
      [] a.k = "ninf" -> Special("inf", a.np)
      [] OTHER -> [a EXCEPT !.m = Abs(a.m)]

\* a + b for finite non-zero a, b with a.e - b.e = d >= 0
AddAligned(a, b, isNp, d) ==
    IF d > 9 THEN [a EXCEPT !.np = isNp]
    ELSE Norm(IF d = 0 THEN a.m + b.m ELSE a.m * 10 + RoundDiv(b.m, 10 ^ (d - 1)),
              IF d = 0 THEN a.e ELSE a.e - 1, isNp)

AddFinite(a, b, isNp) ==
    AddAligned(IF a.e >= b.e THEN a ELSE b, IF a.e >= b.e THEN b ELSE a, isNp,
               Abs(a.e - b.e))

FAdd(a, b) ==
    LET isNp == a.np \/ b.np
    IN  CASE Raises(a, b) -> Exc
          [] a.k = "nan" \/ b.k = "nan" -> Special("nan", isNp)
          [] a.k \in {"inf", "ninf"} ->
                IF b.k \in {"inf", "ninf"} /\ b.k # a.k
                THEN Special("nan", isNp) ELSE Special(a.k, isNp)
          [] b.k \in {"inf", "ninf"} -> Special(b.k, isNp)
          [] a.m = 0 -> [b EXCEPT !.np = isNp]
          [] b.m = 0 -> [a EXCEPT !.np = isNp]
          [] OTHER -> AddFinite(a, b, isNp)

FSub(a, b) == FAdd(a, FNeg(b))

FMul(a, b) ==
    LET isNp == a.np \/ b.np
    IN  CASE Raises(a, b) -> Exc
          [] a.k = "nan" \/ b.k = "nan" -> Special("nan", isNp)
          [] a.k \in {"inf", "ninf"} \/ b.k \in {"inf", "ninf"} ->
                IF IsZero(a) \/ IsZero(b) THEN Special("nan", isNp)
                ELSE InfOfSign(SignOf(a) * SignOf(b), isNp)
          [] a.m = 0 \/ b.m = 0 -> [k |-> "fin", m |-> 0, e |-> 0, np |-> isNp]
          [] OTHER ->
                LET a1 == Abs(a.m) \div 10 ^ 4
                    b1 == Abs(a.m) % 10 ^ 4
                    a2 == Abs(b.m) \div 10 ^ 4
                    b2 == Abs(b.m) % 10 ^ 4
                    top == a1 * a2 * 10
                           + (a1 * b2 + a2 * b1 + (b1 * b2) \div 10 ^ 4) \div 10 ^ 3
                IN  Norm(Sgn(a.m) * Sgn(b.m) * top, a.e + b.e + 7, isNp)

\* the first n digits of r / d after the point, appended to q  (0 <= r < 10 * d)
RECURSIVE LongDiv(_, _, _, _)
LongDiv(r, d, n, q) ==
    IF n = 0 THEN q
    ELSE LongDiv((r % d) * 10, d, n - 1, q * 10 + r \div d)

FDiv(a, b) ==
    LET isNp == a.np \/ b.np
    IN  CASE Raises(a, b) -> Exc
          [] a.k = "nan" \/ b.k = "nan" -> Special("nan", isNp)
          [] IsZero(b) ->
                \* ZeroDivisionError for native Python operands; numpy warns
                IF ~isNp THEN Exc
                ELSE IF IsZero(a) THEN Special("nan", isNp)
                ELSE InfOfSign(SignOf(a), isNp)
          [] a.k \in {"inf", "ninf"} ->
                IF b.k \in {"inf", "ninf"} THEN Special("nan", isNp)
                ELSE InfOfSign(SignOf(a) * SignOf(b), isNp)
          [] b.k \in {"inf", "ninf"} -> [k |-> "fin", m |-> 0, e |-> 0, np |-> isNp]
          [] a.m = 0 -> [k |-> "fin", m |-> 0, e |-> 0, np |-> isNp]
          [] OTHER ->
                Norm(Sgn(a.m) * Sgn(b.m) * LongDiv(Abs(a.m), Abs(b.m), 9, 0),
                     a.e - b.e - 8, isNp)

\* a < b; any comparison with nan is False
FLt(a, b) ==
    CASE ~IsNum(a) \/ ~IsNum(b) -> FALSE
      [] a.k = "nan" \/ b.k = "nan" -> FALSE
      [] a.k = "inf" \/ b.k = "ninf" -> FALSE
      [] a.k = "ninf" \/ b.k = "inf" -> TRUE
      [] Sgn(a.m) # Sgn(b.m) -> Sgn(a.m) < Sgn(b.m)
      [] a.m = 0 -> FALSE
      [] a.m > 0 -> a.e < b.e \/ (a.e = b.e /\ a.m < b.m)
      [] OTHER -> a.e > b.e \/ (a.e = b.e /\ a.m < b.m)

FGt(a, b) == FLt(b, a)
\* a == b on numbers (numpy and native zero are equal; nan equals nothing)
FEq(a, b) ==
    /\ IsNum(a) /\ IsNum(b) /\ a.k # "nan" /\ b.k # "nan"
    /\ a.k = b.k /\ a.m = b.m /\ a.e = b.e

One == F(1, 0)
Half == F(5, -1)
Ln2 == F(69314718, -8)
Ln10 == F(23025851, -7)
Log10E == F(43429448, -8)
InvSqrt2Pi == F(39894228, -8)

\* the largest integer <= the finite number t (|t| < 10^9)
FloorInt(t) ==
    IF t.e >= 0 THEN t.m * 10 ^ t.e
    ELSE IF t.e < -8 THEN (IF t.m < 0 THEN -1 ELSE 0)
    ELSE t.m \div 10 ^ (-t.e)

\* 2 * atanh(z) = 2 z (1 + z^2/3 + z^4/5 + ...), |z| < 0.23, given z2 = z^2
AtanhSeries(z, z2) ==
    LET p7 == FDiv(One, FInt(15))
        p6 == FAdd(FDiv(One, FInt(13)), FMul(z2, p7))
        p5 == FAdd(FDiv(One, FInt(11)), FMul(z2, p6))
        p4 == FAdd(FDiv(One, FInt(9)), FMul(z2, p5))
        p3 == FAdd(FDiv(One, FInt(7)), FMul(z2, p4))
        p2 == FAdd(FDiv(One, FInt(5)), FMul(z2, p3))
        p1 == FAdd(FDiv(One, FInt(3)), FMul(z2, p2))
        p0 == FAdd(One, FMul(z2, p1))
    IN  FMul(FMul(FInt(2), z), p0)

Atanh2(z) == AtanhSeries(z, FMul(z, z))

\* ln(w * 2^k * 10^n) for w in [0.63, 1.59)
LnUnit(w, k, n) ==
    FAdd(Atanh2(FDiv(FSub(w, One), FAdd(w, One))),
         FAdd(FMul(FInt(k), Ln2), FMul(FInt(n), Ln10)))

\* ln(y * 10^n) for y in [0.316, 3.17): y = w * 2^k
LnOctave(y, k, n) ==
    LnUnit(IF k = -1 THEN FMul(y, FInt(2)) ELSE IF k = 1 THEN FMul(y, Half) ELSE y,
           k, n)

LnScaled(y, n) ==
    LnOctave(y, IF FLt(y, F(70710678, -8)) THEN -1
                ELSE IF FLt(y, F(14142136, -7)) THEN 0 ELSE 1, n)

\* ln of a finite x > 0: x = y * 10^n with y in [0.316, 3.17)
LnPos(x) ==
    IF x.m >= 31622777
    THEN LnScaled([k |-> "fin", m |-> x.m, e |-> -8, np |-> TRUE], x.e + 8)
    ELSE LnScaled([k |-> "fin", m |-> x.m, e |-> -7, np |-> TRUE], x.e + 7)

\* np.log: nan (and a warning) below zero, -inf at zero, never an exception
FLog(x) ==
    CASE x.k \in {"exc", "none"} -> Exc
      [] x.k \in {"nan", "ninf"} -> NaN
      [] x.k = "inf" -> PInf
      [] x.m < 0 -> NaN
      [] x.m = 0 -> NInf
      [] OTHER -> LnPos(x)

\* e^u for 0 <= u < 0.3 (Taylor series)
ExpSmall(u) ==
    LET t9 == FAdd(One, FDiv(u, FInt(9)))
        t8 == FAdd(One, FMul(FDiv(u, FInt(8)), t9))
        t7 == FAdd(One, FMul(FDiv(u, FInt(7)), t8))
        t6 == FAdd(One, FMul(FDiv(u, FInt(6)), t7))
        t5 == FAdd(One, FMul(FDiv(u, FInt(5)), t6))
        t4 == FAdd(One, FMul(FDiv(u, FInt(4)), t5))
        t3 == FAdd(One, FMul(FDiv(u, FInt(3)), t4))
        t2 == FAdd(One, FMul(FDiv(u, FInt(2)), t3))
    IN  FAdd(One, FMul(u, t2))

Sq(x) == FMul(x, x)
\* x * 10^n
Scale10(x, n) == IF x.k = "fin" THEN Norm(x.m, x.e + n, TRUE) ELSE x
\* 10^t for t = n + f, 0 <= f < 1:  10^n (e^(f ln10 / 8))^8
Exp10Parts(t, n) ==
    Scale10(Sq(Sq(Sq(ExpSmall(FMul(FMul(FSub(t, FInt(n)), Ln10), F(125, -3)))))), n)
Exp10(t) == Exp10Parts(t, FloorInt(t))
\* e^x for finite -746 < x < 710
ExpFin(x) == Exp10(FMul(x, Log10E))

\* np.exp: inf on overflow, 0 on underflow
FExp(x) ==
    CASE x.k \in {"exc", "none"} -> Exc
      [] x.k = "nan" -> NaN
      [] x.k = "inf" -> PInf
      [] x.k = "ninf" -> Zero
      [] FGt(x, FInt(710)) -> PInf
      [] FLt(x, FInt(-746)) -> Zero
      [] OTHER -> ExpFin(x)

\* Abramowitz & Stegun 26.2.17: the polynomial in t = 1 / (1 + 0.2316419 a)
TailPoly(t) ==
    LET q5 == F(1330274429, -9)
        q4 == FAdd(F(-1821255978, -9), FMul(t, q5))
        q3 == FAdd(F(1781477937, -9), FMul(t, q4))
        q2 == FAdd(F(-356563782, -9), FMul(t, q3))
        q1 == FAdd(F(319381530, -9), FMul(t, q2))
    IN  FMul(t, q1)

\* the asymptotic series in v = 1 / a^2
TailAsymptotic(a, v) ==
    LET r4 == FInt(105)
        r3 == FAdd(FInt(-15), FMul(v, r4))
        r2 == FAdd(FInt(3), FMul(v, r3))
        r1 == FAdd(FInt(-1), FMul(v, r2))
        r0 == FAdd(One, FMul(v, r1))
    IN  FDiv(r0, a)

\* the upper tail 1 - Phi(a) = phi(a) R(a) of the standard normal law, a >= 0:
\* R by Abramowitz & Stegun 26.2.17 below 7, by the asymptotic series above
TailRatio(a) ==
    IF FLt(a, FInt(7))
    THEN TailPoly(FDiv(One, FAdd(One, FMul(F(2316419, -7), a))))
    ELSE TailAsymptotic(a, FDiv(One, FMul(a, a)))

UpperTail(a) ==
    FMul(FMul(InvSqrt2Pi, FExp(FNeg(FMul(Half, FMul(a, a))))), TailRatio(a))

\* Phi(x) from the upper tail t = 1 - Phi(|x|)
LowerTail(x, t) == IF x.m <= 0 THEN t ELSE FSub(One, t)

\* scipy.stats.norm.cdf
NormCdf(x) ==
    CASE x.k \in {"exc", "none"} -> Exc
      [] x.k = "nan" -> NaN
      [] x.k = "inf" -> One
      [] x.k = "ninf" -> Zero
      [] OTHER -> LowerTail(x, UpperTail(FAbs(x)))


(***************************************************************************)
(* Part 2.  The field resolver.                                            *)
(*                                                                         *)
(* A statement table (a pandas DataFrame as yfinance returns it) is a      *)
(* function from the row names present to the sequence of period values,   *)
(* most recent first; all rows of one table have the same length.          *)
(***************************************************************************)

\* 1e-6, the magnitude below which a value counts as missing
Tiny == F(1, -6)

\* is_problematic: pd.isna, np.isinf, == 0, abs(float(value)) < 1e-6;
\* whatever raises inside counts as problematic
IsProblematic(value) ==
    \/ value.k \in {"none", "nan", "exc"}
    \/ value.k \in {"inf", "ninf"}
    \/ IsZero(value)
    \/ FLt(FAbs(value), Tiny)

\* the sentinel (0, None) of safe_get
NoKey == "None"
Sentinel == [value |-> PyZero, key |-> NoKey]

\* a resolver that takes the first key present, problematic or not
SafeGetFirstPresent(df, keys, index) ==
    LET present == {j \in 1..Len(keys) : keys[j] \in DOMAIN df}
    IN  IF present = {} THEN Sentinel
        ELSE LET j == CHOOSE x \in present : \A y \in present : x <= y
             IN  IF index + 1 > Len(df[keys[j]]) THEN Sentinel
                 ELSE [value |-> df[keys[j]][index + 1], key |-> keys[j]]

\* safe_get(df, keys, index): the keys are tried in order; df.loc[key].iloc[index]
\* raises IndexError past the last period, which the except turns into (0, None)
RECURSIVE SafeGet(_, _, _)
SafeGet(df, keys, index) ==
    IF keys = <<>> THEN Sentinel
    ELSE IF Head(keys) \in DOMAIN df
         THEN IF index + 1 > Len(df[Head(keys)]) THEN Sentinel
              ELSE LET value == df[Head(keys)][index + 1]
                   IN  IF ~IsProblematic(value)
                       THEN [value |-> value, key |-> Head(keys)]
                       ELSE SafeGet(df, Tail(keys), index)
         ELSE SafeGet(df, Tail(keys), index)


(***************************************************************************)
(* Part 3.  calculate_merton_default as a state machine.                   *)
(*                                                                         *)
(* The company argument (a yfinance Ticker) is the record of what the data *)
(* provider answers during the call:                                       *)
(*   hist_ok     period -> FALSE when history(period) raises               *)
(*   hist_len    period -> number of daily rows of history(period)         *)
(*   close_std, adj_std, hl_std   the standard deviation (returns.std())   *)
(*               of the log-returns of Close, of Adj Close, and of         *)
(*               log(High / Low)                                           *)
(*   has_adj     whether the frame has an 'Adj Close' column               *)
(*   last_close  stock_data['Close'].iloc[-1]                              *)
(*   stmt_ok     FALSE when fetching balance_sheet / income_stmt / info    *)
(*               raises                                                    *)
(*   info        the info dict: key -> value, for the keys present         *)
(*   balance_sheet, income_stmt   statement tables                         *)
(***************************************************************************)

MinObs == 30
max_iterations == 100

Periods == <<"1y", "6mo", "3mo">>

\* constants of calculate_merton_default
rf_rate == Py(5, -2)
T == Py(1, 0)
convergence_threshold == Py(1, -4)
Sqrt252 == F(15874508, -6)
DefaultVol == Py(3, -1)
ProbCap == Py(99, -2)
ProbFloor == Py(1, -2)
\* np.sqrt(T) for T = 1.0
SqrtT == F(1, 0)

Unset == Special("unset", FALSE)
NoRet == [prob_default |-> Unset, distance_to_default |-> Unset]
NoneRet == [prob_default |-> None, distance_to_default |-> None]

\* info.get(key, 0)
InfoGet(info, key) == IF key \in DOMAIN info THEN info[key] ELSE PyZero

VARIABLES
    pc,                  \* position in the running call, "idle" between calls
    company,             \* the argument of the running calculator call
    sg_args,             \* the arguments (df, keys, index) of the running safe_get
    problematic_values,  \* the call's list of problematic-value notes
    substituted_values,  \* the call's list of substitution notes
    requested,           \* the periods history() was asked for, in order
    stock_data,          \* the period of the frame in use
    equity_vol,
    market_cap,
    total_liabilities,
    V_A,
    sigma_A,
    i,                   \* iterations of the loop started so far
    converged,
    loop_exit,           \* how the loop ended: "none", "converged", "exhausted", "aborted"
    ret,                 \* the returned (prob_default, distance_to_default)
    propagated,          \* an exception left the call
    earlier,             \* the inputs and outputs of the call before this one, when
                         \* this call is made to compare with it
    session_state,       \* st.session_state: key -> value, for the keys present
    now,                 \* datetime.now(), in minutes
    activity,            \* when the session was logged in, last accepted, expired
    check,               \* what check_session answered in this run of main
    rendered,            \* the parts of the page this run of main has rendered
    ticker,              \* main's ticker, once render_search_section returned
    should_analyze,      \* main's should_analyze
    scores,              \* what the three calculators returned to main
    cards,               \* the risk cards this run has rendered: score -> status
    widgets              \* what the widgets of the search section returned

vars == <<pc, company, sg_args, problematic_values, substituted_values, requested,
          stock_data, equity_vol, market_cap, total_liabilities, V_A, sigma_A,
          i, converged, loop_exit, ret, propagated, earlier,
          session_state, now, activity, check, rendered,
          ticker, should_analyze, scores, cards, widgets>>

mainLocals == <<ticker, should_analyze, scores, cards, widgets>>

sessionVars == <<session_state, now, activity, check, rendered,
                 ticker, should_analyze, scores, cards, widgets>>

mertonLocals == <<requested, stock_data, equity_vol, market_cap,
                  total_liabilities, V_A, sigma_A, i, converged, loop_exit>>

NoCompany == [name |-> "none"]

\* a time that is None, or the datetime t
NoTime == <<>>
At(t) == <<t>>
NoActivity == [login |-> NoTime, seen |-> NoTime, expired |-> NoTime]

\* a ticker that is None, or the string s
NoTicker == <<>>
Ticker(s) == <<s>>
\* the calculators have not been called in this run
NoScores == [outcome |-> "none"]
NoCards == <<>>
\* the search section has not been rendered in this run
NoWidgets ==
    [current_query |-> <<>>, changed |-> FALSE, suggestions |-> <<>>,
     clicked |-> FALSE, analyze_button |-> FALSE]

\* no run of main has created the session yet
Offline == DOMAIN session_state = {}
NoEarlier == [name |-> "none"]

Cleared ==
    /\ problematic_values = <<>>
    /\ substituted_values = <<>>
    /\ requested = <<>>
    /\ stock_data = "none"
    /\ equity_vol = Unset
    /\ market_cap = Unset
    /\ total_liabilities = Unset
    /\ V_A = Unset
    /\ sigma_A = Unset
    /\ i = 0
    /\ converged = FALSE
    /\ loop_exit = "none"
    /\ ret = NoRet
    /\ propagated = FALSE

\* an early return that forgets to record its reason
ReturnNoneSilent(note) ==
    /\ UNCHANGED problematic_values
    /\ ret' = NoneRet
    /\ pc' = "m_done"

\* return None, None, problematic_values, substituted_values after appending note
ReturnNone(note) ==
    /\ problematic_values' = Append(problematic_values, note)
    /\ ret' = NoneRet
    /\ pc' = "m_done"

\* the handler of the outermost try (line 1039)
OuterExcept == ReturnNone("Merton Model Calculation Error: e")

-----------------------------------------------------------------------------
\* lines 876-892: the history windows
\* a window search that wants more than MinObs rows
HistoryOutcomeStrict(c) ==
    LET l1 == c.hist_len["1y"]
        l6 == c.hist_len["6mo"]
        l3 == c.hist_len["3mo"]
    IN  IF ~c.hist_ok["1y"] THEN [asked |-> <<"1y">>, end |-> "raise", note |-> ""]
        ELSE IF l1 > MinObs THEN [asked |-> <<"1y">>, end |-> "ok", note |-> ""]
        ELSE IF ~c.hist_ok["6mo"]
             THEN [asked |-> <<"1y", "6mo">>, end |-> "raise", note |-> ""]
        ELSE IF l6 > MinObs
             THEN [asked |-> <<"1y", "6mo">>, end |-> "ok",
                   note |-> "Using 6-month price history for volatility"]
        ELSE IF ~c.hist_ok["3mo"]
             THEN [asked |-> <<"1y", "6mo", "3mo">>, end |-> "raise", note |-> ""]
        ELSE IF l3 > MinObs
             THEN [asked |-> <<"1y", "6mo", "3mo">>, end |-> "ok",
                   note |-> "Using 3-month price history for volatility"]
        ELSE [asked |-> <<"1y", "6mo", "3mo">>, end |-> "short", note |-> ""]

\* the outcome of the window search: the periods asked for, and how it ended
HistoryOutcome(c) ==
    LET l1 == c.hist_len["1y"]
        l6 == c.hist_len["6mo"]
        l3 == c.hist_len["3mo"]
    IN  IF ~c.hist_ok["1y"] THEN [asked |-> <<"1y">>, end |-> "raise", note |-> ""]
        ELSE IF l1 >= MinObs THEN [asked |-> <<"1y">>, end |-> "ok", note |-> ""]
        ELSE IF ~c.hist_ok["6mo"]
             THEN [asked |-> <<"1y", "6mo">>, end |-> "raise", note |-> ""]
        ELSE IF l6 >= MinObs
             THEN [asked |-> <<"1y", "6mo">>, end |-> "ok",
                   note |-> "Using 6-month price history for volatility"]
        ELSE IF ~c.hist_ok["3mo"]
             THEN [asked |-> <<"1y", "6mo", "3mo">>, end |-> "raise", note |-> ""]
        ELSE IF l3 >= MinObs
             THEN [asked |-> <<"1y", "6mo", "3mo">>, end |-> "ok",
                   note |-> "Using 3-month price history for volatility"]
        ELSE [asked |-> <<"1y", "6mo", "3mo">>, end |-> "short", note |-> ""]

FetchHistory ==
    /\ pc = "m_hist"
    /\ LET h == HistoryOutcome(company)
       IN  /\ requested' = h.asked
           /\ stock_data' = IF h.end # "raise" THEN h.asked[Len(h.asked)]
                            ELSE IF Len(h.asked) > 1 THEN h.asked[Len(h.asked) - 1]
                            ELSE "none"
           /\ CASE h.end = "raise" ->
                     /\ ReturnNone("Error fetching stock data: e")
                     /\ UNCHANGED substituted_values
                [] h.end = "short" ->
                     /\ ReturnNone("Insufficient stock price history")
                     /\ UNCHANGED substituted_values
                [] OTHER ->
                     /\ substituted_values' =
                           IF h.note = "" THEN substituted_values
                           ELSE Append(substituted_values, h.note)
                     /\ pc' = "m_vol"
                     /\ UNCHANGED <<problematic_values, ret>>
    /\ UNCHANGED <<company, sg_args, equity_vol, market_cap, total_liabilities, V_A,
                   sigma_A, i, converged, loop_exit, propagated>>
    /\ UNCHANGED earlier
    /\ UNCHANGED sessionVars

-----------------------------------------------------------------------------
\* lines 894-916: equity volatility
\* returns.std() == 0 or np.isnan(returns.std())
Degenerate(std) == IsZero(std) \/ std.k = "nan"

\* the series whose returns are used: "close", "adj", "hl", or "raise" when
\* stock_data['Adj Close'] raises KeyError
VolSource(c) ==
    IF ~Degenerate(c.close_std) THEN "close"
    ELSE IF ~c.has_adj THEN "raise"
    ELSE IF ~Degenerate(c.adj_std) THEN "adj"
    ELSE "hl"

VolStd(c) ==
    CASE VolSource(c) = "close" -> c.close_std
      [] VolSource(c) = "adj" -> c.adj_std
      [] OTHER -> c.hl_std

VolNotes(c) ==
    CASE VolSource(c) = "adj" -> <<"Using adjusted close prices for volatility">>
      [] VolSource(c) = "hl" -> <<"Using high-low range for volatility calculation">>
      [] OTHER -> <<>>

Volatility ==
    /\ pc = "m_vol"
    /\ IF VolSource(company) = "raise"
       THEN /\ ReturnNone("Error calculating volatility: e")
            /\ UNCHANGED <<substituted_values, equity_vol>>
       ELSE LET vol == FMul(VolStd(company), Sqrt252)
            IN  /\ IF vol.k = "nan" \/ IsZero(vol)
                   THEN /\ equity_vol' = DefaultVol
                        /\ substituted_values' =
                              substituted_values \o VolNotes(company)
                              \o <<"Using market average volatility (0.3)">>
                   ELSE /\ equity_vol' = vol
                        /\ substituted_values' =
                              substituted_values \o VolNotes(company)
                /\ pc' = "m_stmt"
                /\ UNCHANGED <<problematic_values, ret>>
    /\ UNCHANGED <<company, sg_args, requested, stock_data, market_cap, total_liabilities,
                   V_A, sigma_A, i, converged, loop_exit, propagated>>
    /\ UNCHANGED earlier
    /\ UNCHANGED sessionVars

-----------------------------------------------------------------------------
\* lines 918-921: the statements and the info dict are fetched
FetchStatements ==
    /\ pc = "m_stmt"
    /\ IF company.stmt_ok
       THEN pc' = "m_equity" /\ UNCHANGED <<problematic_values, ret>>
       ELSE OuterExcept
    /\ UNCHANGED <<company, sg_args, substituted_values, propagated>>
    /\ UNCHANGED mertonLocals
    /\ UNCHANGED earlier
    /\ UNCHANGED sessionVars

-----------------------------------------------------------------------------
\* lines 923-949: market value of equity (E)
EquityKeys == <<"Total Equity", "TotalEquity">>

\* the shares used and the note the float-shares substitution leaves
EquityShares(c) ==
    LET shares == InfoGet(c.info, "sharesOutstanding")
    IN  IF IsProblematic(shares)
        THEN LET fl == InfoGet(c.info, "floatShares")
             IN  [value |-> fl,
                  notes |-> IF ~IsProblematic(fl)
                            THEN <<"Using float shares instead of shares outstanding">>
                            ELSE <<>>]
        ELSE [value |-> shares, notes |-> <<>>]

EquityPrice(c) ==
    LET price == InfoGet(c.info, "currentPrice")
    IN  IF IsProblematic(price)
        THEN [value |-> c.last_close, notes |-> <<"Using latest closing price">>]
        ELSE [value |-> price, notes |-> <<>>]

\* an equity block without the fallback chain and its final check
EquityBlockUnchecked(c) ==
    [value |-> InfoGet(c.info, "marketCap"), notes |-> <<>>, end |-> "ok"]

\* [value, notes, end]: end is "ok", "missing" (line 949) or "raise"
EquityBlock(c) ==
    LET cap == InfoGet(c.info, "marketCap")
    IN  IF ~IsProblematic(cap) THEN [value |-> cap, notes |-> <<>>, end |-> "ok"]
        ELSE
        LET sh == EquityShares(c)
            pr == EquityPrice(c)
            prod == FMul(sh.value, pr.value)
            sofar == sh.notes \o pr.notes
        IN  IF prod.k = "exc" THEN [value |-> cap, notes |-> sofar, end |-> "raise"]
            ELSE IF ~IsProblematic(prod)
            THEN [value |-> prod, end |-> "ok",
                  notes |-> Append(sofar, "Market Cap (calculated from Shares * Price)")]
            ELSE LET total_equity == SafeGet(c.balance_sheet, EquityKeys, 0).value
                 IN  IF ~IsProblematic(total_equity)
                     THEN [value |-> FMul(total_equity, Py(11, -1)), end |-> "ok",
                           notes |-> Append(sofar, "Using book value of equity with premium")]
                     ELSE [value |-> prod, notes |-> sofar, end |-> "missing"]

Equity ==
    /\ pc = "m_equity"
    /\ LET b == EquityBlock(company)
       IN  /\ substituted_values' = substituted_values \o b.notes
           /\ market_cap' = b.value
           /\ CASE b.end = "raise" -> OuterExcept
                [] b.end = "missing" -> ReturnNone("Market Value of Equity")
                [] OTHER -> pc' = "m_debt" /\ UNCHANGED <<problematic_values, ret>>
    /\ UNCHANGED <<company, sg_args, requested, stock_data, equity_vol, total_liabilities,
                   V_A, sigma_A, i, converged, loop_exit, propagated>>
    /\ UNCHANGED earlier
    /\ UNCHANGED sessionVars

-----------------------------------------------------------------------------
\* lines 951-973: face value of debt (F)
LiabilityKeys == <<"Total Liabilities Net Minority Interest", "TotalLiabilities",
                   "Total Liabilities">>
CurrentLiabilityKeys == <<"Current Liabilities", "TotalCurrentLiabilities">>
LongTermDebtKeys == <<"Long Term Debt", "LongTermDebt">>
TotalDebtKeys == <<"Total Debt", "TotalDebt">>

DebtBlock(c) ==
    LET tl == SafeGet(c.balance_sheet, LiabilityKeys, 0).value
    IN  IF ~IsProblematic(tl) THEN [value |-> tl, notes |-> <<>>, end |-> "ok"]
        ELSE
        LET current_liabilities == SafeGet(c.balance_sheet, CurrentLiabilityKeys, 0).value
            long_term_debt == SafeGet(c.balance_sheet, LongTermDebtKeys, 0).value
            sum == FAdd(current_liabilities, long_term_debt)
        IN  IF ~IsProblematic(sum)
            THEN [value |-> sum, end |-> "ok", notes |->
                  <<"Total Liabilities (sum of current liabilities and long-term debt)">>]
            ELSE LET total_debt == SafeGet(c.balance_sheet, TotalDebtKeys, 0).value
                 IN  IF ~IsProblematic(total_debt)
                     THEN [value |-> FMul(total_debt, Py(12, -1)), end |-> "ok", notes |->
                           <<"Using total debt with adjustment for non-debt liabilities">>]
                     ELSE [value |-> sum, notes |-> <<>>, end |-> "missing"]

Debt ==
    /\ pc = "m_debt"
    /\ LET b == DebtBlock(company)
       IN  /\ substituted_values' = substituted_values \o b.notes
           /\ total_liabilities' = b.value
           /\ IF b.end = "missing" THEN ReturnNone("Total Liabilities")
              ELSE pc' = "m_init" /\ UNCHANGED <<problematic_values, ret>>
    /\ UNCHANGED <<company, sg_args, requested, stock_data, equity_vol, market_cap,
                   V_A, sigma_A, i, converged, loop_exit, propagated>>
    /\ UNCHANGED earlier
    /\ UNCHANGED sessionVars

-----------------------------------------------------------------------------
\* lines 975-992: the initial guess
InitialGuess ==
    /\ pc = "m_init"
    /\ LET v0 == FAdd(market_cap, total_liabilities)
           s0 == FDiv(FMul(equity_vol, market_cap), v0)
       IN  IF v0.k = "exc" \/ s0.k = "exc"
           THEN OuterExcept /\ UNCHANGED <<V_A, sigma_A>>
           ELSE /\ V_A' = v0
                /\ sigma_A' = s0
                /\ pc' = "m_loop"
                /\ UNCHANGED <<problematic_values, ret>>
    /\ UNCHANGED <<company, sg_args, substituted_values, requested, stock_data, equity_vol,
                   market_cap, total_liabilities, i, converged, loop_exit, propagated>>
    /\ UNCHANGED earlier
    /\ UNCHANGED sessionVars

-----------------------------------------------------------------------------
\* lines 995-1013: one iteration of the loop
D1(va, sa) ==
    FDiv(FAdd(FLog(FDiv(va, total_liabilities)),
              FMul(FAdd(rf_rate, FMul(Half, FMul(sa, sa))), T)),
         FMul(sa, SqrtT))

VANew(cdf) == FDiv(market_cap, cdf)
\* a sigma_A candidate computed from the V_A the iteration has just updated
SigmaANewUpdated(va, cdf) ==
    FDiv(FMul(equity_vol, market_cap),
         FMul(FMul(Half, FAdd(va, FDiv(market_cap, cdf))), cdf))

SigmaANew(va, cdf) == FDiv(FMul(equity_vol, market_cap), FMul(va, cdf))

\* a test that is content with either of the two differences being small
ConvergenceTestEither(va_new, va, sa_new, sa) ==
    \/ FLt(FAbs(FSub(va_new, va)), convergence_threshold)
    \/ FLt(FAbs(FSub(sa_new, sa)), convergence_threshold)

\* abs(V_A_new - V_A) < threshold and abs(sigma_A_new - sigma_A) < threshold
ConvergenceTest(va_new, va, sa_new, sa) ==
    /\ FLt(FAbs(FSub(va_new, va)), convergence_threshold)
    /\ FLt(FAbs(FSub(sa_new, sa)), convergence_threshold)

Damp(old, new) == FMul(Half, FAdd(old, new))

\* the rest of the try body once V_A_new and sigma_A_new are computed
LoopBody(V_A_new, sigma_A_new) ==
    IF V_A_new.k = "exc" \/ sigma_A_new.k = "exc"
    THEN \* except: note the error, keep the last values, break
         /\ problematic_values' = Append(problematic_values,
               "Convergence error in iteration: e")
         /\ loop_exit' = "aborted"
         /\ pc' = "m_final"
         /\ UNCHANGED <<V_A, sigma_A, converged>>
    ELSE IF ConvergenceTest(V_A_new, V_A, sigma_A_new, sigma_A)
    THEN /\ converged' = TRUE
         /\ loop_exit' = "converged"
         /\ pc' = "m_final"
         /\ UNCHANGED <<V_A, sigma_A, problematic_values>>
    ELSE /\ V_A' = Damp(V_A, V_A_new)
         /\ sigma_A' = Damp(sigma_A, sigma_A_new)
         /\ UNCHANGED <<pc, converged, loop_exit, problematic_values>>

LoopUpdate(cdf) == LoopBody(VANew(cdf), SigmaANew(V_A, cdf))

\* a loop that runs one update too many
IterateOffByOne ==
    /\ pc = "m_loop"
    /\ IF i > max_iterations
       THEN \* one step too late
            /\ loop_exit' = "exhausted"
            /\ pc' = "m_final"
            /\ UNCHANGED <<V_A, sigma_A, i, converged, problematic_values>>
       ELSE /\ i' = i + 1
            /\ LoopUpdate(NormCdf(D1(V_A, sigma_A)))
    /\ UNCHANGED <<company, sg_args, substituted_values, requested, stock_data, equity_vol,
                   market_cap, total_liabilities, ret, propagated>>
    /\ UNCHANGED earlier
    /\ UNCHANGED sessionVars

Iterate ==
    /\ pc = "m_loop"
    /\ IF i >= max_iterations
       THEN \* range(max_iterations) is exhausted
            /\ loop_exit' = "exhausted"
            /\ pc' = "m_final"
            /\ UNCHANGED <<V_A, sigma_A, i, converged, problematic_values>>
       ELSE /\ i' = i + 1
            /\ LoopUpdate(NormCdf(D1(V_A, sigma_A)))
    /\ UNCHANGED <<company, sg_args, substituted_values, requested, stock_data, equity_vol,
                   market_cap, total_liabilities, ret, propagated>>
    /\ UNCHANGED earlier
    /\ UNCHANGED sessionVars

-----------------------------------------------------------------------------
\* lines 1015-1037: distance to default and probability of default
DistanceToDefault(va, sa) ==
    FDiv(FAdd(FLog(FDiv(va, total_liabilities)),
              FMul(FSub(rf_rate, FMul(Half, FMul(sa, sa))), T)),
         FMul(sa, SqrtT))

\* sanity checks that clamp without saying so
ClampSilent(p) ==
    IF FGt(p, ProbCap) THEN [value |-> ProbCap, notes |-> <<>>]
    ELSE IF FLt(p, ProbFloor) THEN [value |-> ProbFloor, notes |-> <<>>]
         ELSE [value |-> p, notes |-> <<>>]

\* the sanity checks: [value, notes]
Clamp(p) ==
    IF FGt(p, ProbCap) THEN [value |-> ProbCap, notes |-> <<"Capped probability at 99%">>]
    ELSE IF FLt(p, ProbFloor)
         THEN [value |-> ProbFloor, notes |-> <<"Floored probability at 1%">>]
         ELSE [value |-> p, notes |-> <<>>]

\* a note recorded whether or not the loop converged
NoConvergenceNoteAlways == <<"Using last iteration values (no convergence)">>

NoConvergenceNote ==
    IF converged THEN <<>> ELSE <<"Using last iteration values (no convergence)">>

\* the try of lines 1018-1037 once distance_to_default and the raw
\* prob_default are computed
FinalReturn(dd, clamped) ==
    IF dd.k = "exc" \/ clamped.value.k = "exc"
    THEN /\ substituted_values' = substituted_values \o NoConvergenceNote
         /\ ReturnNone("Error in final probability calculation: e")
    ELSE /\ substituted_values' = substituted_values \o NoConvergenceNote \o clamped.notes
         /\ ret' = [prob_default |-> clamped.value, distance_to_default |-> dd]
         /\ pc' = "m_done"
         /\ UNCHANGED problematic_values

\* a final computation that takes Phi(DD) for the probability of default
FinalFromSurvival(dd) == FinalReturn(dd, Clamp(NormCdf(dd)))

FinalFrom(dd) == FinalReturn(dd, Clamp(NormCdf(FNeg(dd))))

Final ==
    /\ pc = "m_final"
    /\ FinalFrom(DistanceToDefault(V_A, sigma_A))
    /\ UNCHANGED <<company, sg_args, propagated>>
    /\ UNCHANGED mertonLocals
    /\ UNCHANGED earlier
    /\ UNCHANGED sessionVars


(***************************************************************************)
(* calculate_z_score and calculate_ohlson_score.  Each is straight-line    *)
(* code over the fetched statements: an operator from the company to the   *)
(* returned tuple.  A block is [value, problematic, substituted, end]:     *)
(* the value it resolved, the notes it appended to the two lists, and how  *)
(* it ended ("ok", "return" for an early return None, "raise").            *)
(***************************************************************************)

TotalAssetsKeys == <<"Total Assets", "TotalAssets">>
NonCurrentAssetsKeys == <<"Non Current Assets", "TotalNonCurrentAssets">>
CurrentAssetsKeys2 == <<"Current Assets", "TotalCurrentAssets">>
CurrentAssetsKeys3 == <<"Current Assets", "CurrentAssets", "TotalCurrentAssets">>
CurrentLiabilityKeys3 == <<"Current Liabilities", "CurrentLiabilities",
                           "TotalCurrentLiabilities">>
RetainedEarningsKeys == <<"Retained Earnings", "RetainedEarnings">>
CapitalStockKeys == <<"Capital Stock", "CommonStock">>
EbitKeys == <<"EBIT", "OperatingIncome">>
EbitdaKeys == <<"EBITDA">>
DepreciationKeys == <<"Depreciation", "DepreciationAndAmortization">>
SalesKeys == <<"Total Revenue", "TotalRevenue", "Revenue">>
LiabilityKeys2 == <<"Total Liabilities Net Minority Interest", "TotalLiabilities">>
NetIncomeKeys == <<"Net Income", "NetIncome">>
OperatingIncomeKeys == <<"Operating Income", "OperatingIncome">>
InterestExpenseKeys == <<"Interest Expense", "InterestExpense">>
TaxKeys == <<"Tax Provision", "TaxProvision">>

Get(df, keys) == SafeGet(df, keys, 0).value

\* a primary value, else the fallback formula's value with its note, else the
\* field's name in the problematic list
Resolve(primary, fallback, subNote, probName) ==
    IF ~IsProblematic(primary)
    THEN [value |-> primary, problematic |-> <<>>, substituted |-> <<>>, ok |-> TRUE]
    ELSE IF ~IsProblematic(fallback)
    THEN [value |-> fallback, problematic |-> <<>>, substituted |-> <<subNote>>,
          ok |-> TRUE]
    ELSE [value |-> fallback, problematic |-> <<probName>>, substituted |-> <<>>,
          ok |-> FALSE]

\* lines 706-716
ZTotalAssets(c) ==
    Resolve(Get(c.balance_sheet, TotalAssetsKeys),
            FAdd(Get(c.balance_sheet, CurrentAssetsKeys2),
                 Get(c.balance_sheet, NonCurrentAssetsKeys)),
            "Total Assets (calculated from Current + Non-Current Assets)",
            "Total Assets")

\* lines 718-721
ZWorkingCapital(c) ==
    FSub(Get(c.balance_sheet, CurrentAssetsKeys3),
         Get(c.balance_sheet, CurrentLiabilityKeys3))

\* lines 723-732
ZRetainedEarnings(c) ==
    Resolve(Get(c.balance_sheet, RetainedEarningsKeys),
            FSub(Get(c.balance_sheet, EquityKeys), Get(c.balance_sheet, CapitalStockKeys)),
            "Retained Earnings (calculated from Total Equity - Capital Stock)",
            "Retained Earnings")

\* lines 734-743
ZEbit(c) ==
    Resolve(Get(c.income_stmt, EbitKeys),
            FSub(Get(c.income_stmt, EbitdaKeys), Get(c.income_stmt, DepreciationKeys)),
            "EBIT (calculated from EBITDA - Depreciation)",
            "EBIT")

\* lines 745-754; shares * price raises TypeError when either is None
ZMarketValue(c) ==
    Resolve(InfoGet(c.info, "marketCap"),
            FMul(InfoGet(c.info, "sharesOutstanding"), InfoGet(c.info, "currentPrice")),
            "Market Value (calculated from Shares * Price)",
            "Market Value")

ZMarketRaises(c) ==
    /\ IsProblematic(InfoGet(c.info, "marketCap"))
    /\ FMul(InfoGet(c.info, "sharesOutstanding"), InfoGet(c.info, "currentPrice")).k = "exc"

\* lines 763-766
ZSalesOf(sales) ==
    [value |-> sales,
     problematic |-> IF IsProblematic(sales) THEN <<"Sales/Revenue">> ELSE <<>>]

ZSales(c) == ZSalesOf(Get(c.income_stmt, SalesKeys))

\* lines 769-777
ZFormula(total_assets, working_capital, retained_earnings, ebit, market_value, liabilities, sales) ==
    LET A == FDiv(working_capital, total_assets)
        B == FDiv(retained_earnings, total_assets)
        C == FDiv(ebit, total_assets)
        D == IF ~IsProblematic(liabilities)
             THEN FDiv(market_value, liabilities) ELSE PyZero
        E == FDiv(sales, total_assets)
    IN  FAdd(FAdd(FAdd(FAdd(FMul(Py(12, -1), A), FMul(Py(14, -1), B)),
                       FMul(Py(33, -1), C)), FMul(Py(6, -1), D)), FMul(Py(1, 0), E))

\* a handler that lets the exception out of calculate_z_score
ZExceptReraise(problematic, substituted) ==
    [z_score |-> Exc, problematic |-> problematic,
     substituted |-> substituted, propagated |-> TRUE]

\* the except of calculate_z_score (lines 780-783): the note, then return None
ZExcept(problematic, substituted) ==
    [z_score |-> None, problematic |-> Append(problematic, "Calculation Error: e"),
     substituted |-> substituted, propagated |-> FALSE]

\* a Z-score that is absent as soon as any field is unresolved
ZFromFieldsStrict(c, ta, re, eb, mv, sa) ==
    IF ZMarketRaises(c)
    THEN ZExcept(re.problematic \o eb.problematic,
                 ta.substituted \o re.substituted \o eb.substituted)
    ELSE [z_score |-> IF re.ok /\ eb.ok /\ mv.ok /\ sa.problematic = <<>>
                      THEN ZFormula(ta.value, ZWorkingCapital(c), re.value, eb.value,
                                    mv.value, Get(c.balance_sheet, LiabilityKeys),
                                    sa.value)
                      ELSE None,
          problematic |-> re.problematic \o eb.problematic \o mv.problematic
                          \o sa.problematic,
          substituted |-> ta.substituted \o re.substituted \o eb.substituted
                          \o mv.substituted,
          propagated |-> FALSE]

\* lines 718-778 once total assets are resolved
ZFromFields(c, ta, re, eb, mv, sa) ==
    IF ZMarketRaises(c)
    THEN ZExcept(re.problematic \o eb.problematic,
                 ta.substituted \o re.substituted \o eb.substituted)
    ELSE [z_score |-> ZFormula(ta.value, ZWorkingCapital(c), re.value, eb.value,
                               mv.value, Get(c.balance_sheet, LiabilityKeys), sa.value),
          problematic |-> re.problematic \o eb.problematic \o mv.problematic
                          \o sa.problematic,
          substituted |-> ta.substituted \o re.substituted \o eb.substituted
                          \o mv.substituted,
          propagated |-> FALSE]

ZFromTotal(c, ta) ==
    IF ~ta.ok
    THEN [z_score |-> None, problematic |-> ta.problematic,
          substituted |-> ta.substituted, propagated |-> FALSE]
    ELSE ZFromFields(c, ta, ZRetainedEarnings(c), ZEbit(c), ZMarketValue(c), ZSales(c))

\* calculate_z_score(ticker)
ZScore(c) ==
    IF ~c.stmt_ok THEN ZExcept(<<>>, <<>>)
    ELSE ZFromTotal(c, ZTotalAssets(c))

-----------------------------------------------------------------------------
\* calculate_ohlson_score

\* max(a, b) of Python: b when b > a, else a
PyMax(a, b) == IF FGt(b, a) THEN b ELSE a

\* math.exp: OverflowError above 709.78, a native float otherwise
MathExp(x) ==
    IF IsFin(x) /\ FGt(x, F(70978, -2)) THEN Exc
    ELSE LET r == FExp(x) IN IF IsNum(r) THEN [r EXCEPT !.np = FALSE] ELSE r

\* lines 798-809; sum([a, b]) starts from the int 0
OTotalAssets(c) ==
    Resolve(Get(c.balance_sheet, TotalAssetsKeys),
            FAdd(FAdd(PyZero, Get(c.balance_sheet, CurrentAssetsKeys2)),
                 Get(c.balance_sheet, NonCurrentAssetsKeys)),
            "Total Assets (sum of Current and Non-Current)",
            "Total Assets")

\* lines 830-840
ONetIncome(c) ==
    Resolve(Get(c.income_stmt, NetIncomeKeys),
            FSub(FSub(Get(c.income_stmt, OperatingIncomeKeys),
                      Get(c.income_stmt, InterestExpenseKeys)),
                 Get(c.income_stmt, TaxKeys)),
            "Net Income (Operating Income - Interest - Tax)",
            "Net Income")

\* lines 844-852: [intwo, chin, substituted]
OChangeFrom(net_income, prev_net_income, chin) ==
    IF chin.k = "exc"
    THEN [intwo |-> PyZero, chin |-> PyZero,
          substituted |-> <<"Previous year's data not available">>]
    ELSE [intwo |-> IF FLt(net_income, PyZero) /\ FLt(prev_net_income, PyZero)
                    THEN Py(1, 0) ELSE PyZero,
          chin |-> chin, substituted |-> <<>>]

OChangeOf(net_income, prev_net_income) ==
    OChangeFrom(net_income, prev_net_income,
                FDiv(FSub(net_income, prev_net_income),
                     FAdd(FAbs(net_income), FAbs(prev_net_income))))

OChange(c, net_income) ==
    OChangeOf(net_income, SafeGet(c.income_stmt, NetIncomeKeys, 1).value)

\* the formula with oeneg in it once, at +2.37
OFormulaOnce(size, tlta, wcta, clca, oeneg, nita, intwo, chin) ==
    FSub(FAdd(FSub(FAdd(FAdd(FSub(FAdd(FSub(Py(-132, -2),
        FMul(Py(407, -3), size)),
        FMul(Py(603, -2), tlta)),
        FMul(Py(143, -2), wcta)),
        FMul(Py(757, -4), clca)),
        FMul(Py(237, -2), oeneg)),
        FMul(Py(183, -2), nita)),
        FMul(Py(285, -3), intwo)),
        FMul(Py(521, -3), chin))

\* lines 854-856
OFormula(size, tlta, wcta, clca, oeneg, nita, intwo, chin) ==
    FSub(FSub(FAdd(FSub(FAdd(FAdd(FSub(FAdd(FSub(Py(-132, -2),
        FMul(Py(407, -3), size)),
        FMul(Py(603, -2), tlta)),
        FMul(Py(143, -2), wcta)),
        FMul(Py(757, -4), clca)),
        FMul(Py(237, -2), oeneg)),
        FMul(Py(183, -2), nita)),
        FMul(Py(285, -3), intwo)),
        FMul(Py(172, -2), oeneg)),
        FMul(Py(521, -3), chin))

\* the except of calculate_ohlson_score (lines 863-865)
OExcept(problematic, substituted) ==
    [o_score |-> None, prob_default |-> None,
     problematic |-> Append(problematic, "Calculation Error: e"),
     substituted |-> substituted, propagated |-> FALSE]

\* lines 854-861 and the handler around them
OReturn(o_score, prob_default, problematic, substituted) ==
    IF o_score.k = "exc" \/ prob_default.k = "exc"
    THEN OExcept(problematic, substituted)
    ELSE [o_score |-> o_score, prob_default |-> prob_default,
          problematic |-> problematic, substituted |-> substituted,
          propagated |-> FALSE]

Logistic(o_score) == FDiv(Py(1, 0), FAdd(Py(1, 0), MathExp(FNeg(o_score))))

OFinish(o_score, problematic, substituted) ==
    OReturn(o_score, Logistic(o_score), problematic, substituted)

\* lines 842-856 once total assets and net income are resolved
OFromIncome(size, tlta, wcta, clca, oeneg, total_assets, ni, ch, substituted) ==
    OFinish(OFormula(size, tlta, wcta, clca, oeneg,
                     IF ~IsProblematic(ni.value) THEN FDiv(ni.value, total_assets)
                     ELSE PyZero,
                     ch.intwo, ch.chin),
            ni.problematic, substituted \o ni.substituted \o ch.substituted)

\* lines 811-840 once total assets are resolved
OFromAssets(c, total_assets, current_assets, current_liabilities, liabilities, ni, substituted) ==
    OFromIncome(FLog(PyMax(total_assets, Py(10000, 0))),
                IF ~IsProblematic(liabilities)
                THEN FDiv(liabilities, total_assets) ELSE PyZero,
                FDiv(FSub(current_assets, current_liabilities), total_assets),
                IF ~IsProblematic(current_assets)
                THEN FDiv(current_liabilities, current_assets) ELSE PyZero,
                IF FGt(liabilities, total_assets) THEN Py(1, 0) ELSE PyZero,
                total_assets, ni, OChange(c, ni.value), substituted)

OFromTotal(c, ta) ==
    IF ~ta.ok
    THEN [o_score |-> None, prob_default |-> None, problematic |-> ta.problematic,
          substituted |-> ta.substituted, propagated |-> FALSE]
    ELSE OFromAssets(c, ta.value, Get(c.balance_sheet, CurrentAssetsKeys2),
                     Get(c.balance_sheet, CurrentLiabilityKeys),
                     Get(c.balance_sheet, LiabilityKeys2), ONetIncome(c),
                     ta.substituted)

\* calculate_ohlson_score(company)
OScore(c) ==
    IF ~c.stmt_ok THEN OExcept(<<>>, <<>>)
    ELSE OFromTotal(c, OTotalAssets(c))

(***************************************************************************)
(* Part 4.  The calls, and the data-provider answers they are made on.     *)
(*                                                                         *)
(* A company is a healthy one in which one group of provider answers (the  *)
(* price history, the return series, the statement fetch, the equity       *)
(* fields, the debt fields, ...) takes any combination of its values.      *)
(***************************************************************************)

\* price-history lengths range over MinObs - HistSlack .. MinObs + HistSlack - 1
HistSlack == 1
\* balance-sheet liabilities range over 2^0 .. 2^MaxDebtLevel, market
\* capitalisations over 2^0 .. 2^MaxCapLevel
MaxDebtLevel == 5
MaxCapLevel == 2
\* statement tables handed to safe_get have up to MaxPeriods period columns
MaxPeriods == 2

EmptyTable == <<>>

\* the tables that carry at most one row under one of the names keys, with
\* one of the period-value sequences rows
Opt(keys, rows) ==
    {EmptyTable} \cup {keys[j] :> r : j \in 1..Len(keys), r \in rows}
\* under the first name only
Opt1(keys, rows) == {EmptyTable} \cup {keys[1] :> r : r \in rows}

\* standard deviations of daily returns giving annual volatilities 0.3, 0.4, 0.5
Std30 == F(18898224, -9)
Std40 == F(25197632, -9)
Std50 == F(31497039, -9)

HealthyHist == [hist_ok |-> [p \in {"1y", "6mo", "3mo"} |-> TRUE],
                hist_len |-> [p \in {"1y", "6mo", "3mo"} |-> MinObs]]
HealthyVol == [close_std |-> Std30, has_adj |-> FALSE, adj_std |-> Std40,
               hl_std |-> Std50]
HealthyInfo == "marketCap" :> Py(1, 0)
AssetRows == "Total Assets" :> <<F(10, 0)>> @@ "Current Assets" :> <<F(4, 0)>>
             @@ "Current Liabilities" :> <<F(2, 0)>>
EarningRows == "Retained Earnings" :> <<F(3, 0)>>
DebtRows == "Total Liabilities Net Minority Interest" :> <<F(1, 0)>>
EbitRows == "EBIT" :> <<F(2, 0), F(2, 0)>>
SalesRows == "Total Revenue" :> <<F(12, 0), F(11, 0)>>
NetIncomeRows == "Net Income" :> <<F(2, 0), F(1, 0)>>

Company(hist, vol, ok, info, sheet, income) ==
    [hist_ok |-> hist.hist_ok, hist_len |-> hist.hist_len,
     close_std |-> vol.close_std, has_adj |-> vol.has_adj,
     adj_std |-> vol.adj_std, hl_std |-> vol.hl_std,
     last_close |-> F(2, 0), stmt_ok |-> ok, info |-> info,
     balance_sheet |-> sheet, income_stmt |-> income]

HistChoices ==
    {[hist_ok |-> ok, hist_len |-> len] :
        ok \in [{"1y", "6mo", "3mo"} -> BOOLEAN],
        len \in [{"1y", "6mo", "3mo"} -> (MinObs - HistSlack)..(MinObs + HistSlack - 1)]}

VolChoices ==
    {[close_std |-> c, has_adj |-> h, adj_std |-> a, hl_std |-> l] :
        c \in {NaN, Zero, Std30, Std40}, h \in BOOLEAN,
        a \in {NaN, Zero, Std40}, l \in {NaN, Zero, Std50}}

\* the info dict: each key missing, None, or a number
InfoOpt(key, values) == {EmptyTable} \cup {key :> v : v \in values}

\* the equity fields: a usable market capitalisation, or an unusable one
\* with every combination of the fallback fields
EquityChoices ==
    {[info |-> "marketCap" :> Py(2 ^ j, 0), rows |-> EmptyTable] : j \in 0..MaxCapLevel}
    \cup
    {[info |-> cap @@ sh @@ fl @@ pr, rows |-> te] :
        cap \in InfoOpt("marketCap", {None}),
        sh \in InfoOpt("sharesOutstanding", {None, Py(2, 0)}),
        fl \in InfoOpt("floatShares", {None, Py(1, 0)}),
        pr \in InfoOpt("currentPrice", {None, Py(3, 0)}),
        te \in Opt1(EquityKeys, {<<NaN>>, <<F(-2, 0)>>})
               \cup {EquityKeys[k] :> <<F(2, 0)>> : k \in 1..2}}

\* the debt fields: a usable total, or an unusable one with every
\* combination of the fallback fields
DebtChoices ==
    {LiabilityKeys[1] :> <<F(2 ^ j, 0)>> : j \in 0..MaxDebtLevel}
    \cup {LiabilityKeys[k] :> <<F(1, 0)>> : k \in 2..3}
    \cup
    {tl @@ cl @@ ltd @@ td :
        tl \in Opt1(LiabilityKeys, {<<NaN>>}),
        cl \in Opt1(CurrentLiabilityKeys, {<<F(1, 0)>>, <<F(-1, 0)>>}),
        ltd \in Opt1(LongTermDebtKeys, {<<F(1, 0)>>}),
        td \in Opt1(TotalDebtKeys, {<<F(1, 0)>>, <<F(-1, 0)>>})}

\* healthy companies over every pair of a market capitalisation and a
\* total of liabilities
CapInfo(j) == "marketCap" :> Py(2 ^ j, 0)
GridCompany(j, k) ==
    Company(HealthyHist, HealthyVol, TRUE, CapInfo(j), LiabilityKeys[1] :> <<F(2 ^ k, 0)>>,
            EmptyTable)
GridCompanies == {GridCompany(j, k) : j \in 0..MaxCapLevel, k \in 0..MaxDebtLevel}

\* the companies that differ from c in a larger market capitalisation only
LargerEquity(c) ==
    IF c \notin GridCompanies THEN {}
    ELSE {[c EXCEPT !.info = CapInfo(j)] :
             j \in {h \in 0..MaxCapLevel : FGt(Py(2 ^ h, 0), c.info["marketCap"])}}

MertonCompanies ==
    GridCompanies
    \cup {Company(h, HealthyVol, TRUE, HealthyInfo, DebtRows, EmptyTable) : h \in HistChoices}
    \cup {Company(HealthyHist, v, TRUE, HealthyInfo, DebtRows, EmptyTable) :
             v \in VolChoices}
    \cup {Company(HealthyHist, HealthyVol, FALSE, HealthyInfo, DebtRows, EmptyTable)}
    \cup {Company(HealthyHist, HealthyVol, TRUE, e.info, e.rows @@ DebtRows, EmptyTable) :
             e \in EquityChoices}
    \cup {Company(HealthyHist, HealthyVol, TRUE, HealthyInfo, d, EmptyTable) :
             d \in DebtChoices}

\* the asset fields read by the Z-score and the O-score
AssetChoices ==
    {ta @@ ca @@ nca @@ cl :
        ta \in Opt(TotalAssetsKeys, {<<NaN>>, <<F(10, 0)>>, <<F(-10, 0)>>}),
        ca \in Opt(CurrentAssetsKeys3, {<<F(4, 0)>>}),
        nca \in Opt1(NonCurrentAssetsKeys, {<<F(6, 0)>>}),
        cl \in Opt1(CurrentLiabilityKeys, {<<F(2, 0)>>})}

EarningChoices ==
    {re @@ te @@ cs :
        re \in Opt(RetainedEarningsKeys, {<<NaN>>, <<F(3, 0)>>}),
        te \in Opt1(EquityKeys, {<<F(5, 0)>>}),
        cs \in Opt1(CapitalStockKeys, {<<F(1, 0)>>, <<F(5, 0)>>})}

EbitChoices ==
    {eb @@ ebitda @@ dep :
        eb \in Opt(EbitKeys, {<<F(2, 0), F(2, 0)>>}),
        ebitda \in Opt1(EbitdaKeys, {<<F(3, 0), F(3, 0)>>}),
        dep \in Opt1(DepreciationKeys, {<<F(1, 0), F(1, 0)>>, <<F(3, 0), F(3, 0)>>})}

MarketChoices ==
    {cap @@ sh @@ pr :
        cap \in InfoOpt("marketCap", {None, PyZero, Py(8, 0)}),
        sh \in InfoOpt("sharesOutstanding", {None, Py(2, 0)}),
        pr \in InfoOpt("currentPrice", {None, Py(3, 0)})}

LiabilityChoices == Opt(LiabilityKeys, {<<NaN>>, <<F(1, 0)>>, <<F(20, 0)>>})

SalesChoices == Opt(SalesKeys, {<<NaN, NaN>>, <<F(12, 0), F(11, 0)>>})

\* net income and the fields of its substitute, over one or two periods
NetIncomeValues == {NaN, F(2, 0), F(-2, 0)}
IncomeChoices ==
    UNION {
      {ni @@ oi @@ ie @@ tx :
        ni \in Opt1(NetIncomeKeys, [1..n -> NetIncomeValues]),
        oi \in Opt1(OperatingIncomeKeys, {[p \in 1..n |-> F(3, 0)]}),
        ie \in Opt1(InterestExpenseKeys, {[p \in 1..n |-> F(1, 0)],
                                           [p \in 1..n |-> F(3, 0)]}),
        tx \in Opt1(TaxKeys, {[p \in 1..n |-> F(1, 0)]})} : n \in 1..2}

ZCompany(ok, info, sheet, income) ==
    Company(HealthyHist, HealthyVol, ok, info, sheet, income)

ZCompanies ==
    {ZCompany(FALSE, HealthyInfo, AssetRows @@ EarningRows @@ DebtRows,
              EbitRows @@ SalesRows)}
    \cup {ZCompany(TRUE, HealthyInfo, a @@ EarningRows @@ DebtRows,
                   EbitRows @@ SalesRows) : a \in AssetChoices}
    \cup {ZCompany(TRUE, HealthyInfo, AssetRows @@ e @@ DebtRows,
                   EbitRows @@ SalesRows) : e \in EarningChoices}
    \cup {ZCompany(TRUE, HealthyInfo, AssetRows @@ EarningRows @@ DebtRows,
                   e @@ SalesRows) : e \in EbitChoices}
    \cup {ZCompany(TRUE, m, AssetRows @@ EarningRows @@ DebtRows,
                   EbitRows @@ SalesRows) : m \in MarketChoices}
    \cup {ZCompany(TRUE, HealthyInfo, AssetRows @@ EarningRows @@ l,
                   EbitRows @@ SalesRows) : l \in LiabilityChoices}
    \cup {ZCompany(TRUE, HealthyInfo, AssetRows @@ EarningRows @@ DebtRows,
                   EbitRows @@ sl) : sl \in SalesChoices}

OCompanies ==
    {ZCompany(FALSE, HealthyInfo, AssetRows @@ DebtRows, NetIncomeRows)}
    \cup {ZCompany(TRUE, HealthyInfo, a @@ DebtRows, NetIncomeRows) : a \in AssetChoices}
    \cup {ZCompany(TRUE, HealthyInfo, AssetRows @@ l, NetIncomeRows) :
             l \in LiabilityChoices}
    \cup {ZCompany(TRUE, HealthyInfo, AssetRows @@ DebtRows, n) : n \in IncomeChoices}
    \cup {ZCompany(TRUE, HealthyInfo, a, NetIncomeRows) : a \in AssetChoices}

\* the tables safe_get is called on: rows under the names of one key list,
\* every row with the same number of periods
CellValues == {NaN, PInf, Zero, F(-1, -7), F(5, 0)}
SafeGetTables ==
    UNION {
      {a @@ b : a \in Opt1(<<CurrentLiabilityKeys[1]>>, [1..n -> CellValues]),
                b \in Opt1(<<CurrentLiabilityKeys[2]>>, [1..n -> CellValues])}
      : n \in 0..MaxPeriods}

NoArgs == [df |-> EmptyTable, keys |-> <<>>, index |-> 0]

-----------------------------------------------------------------------------
Init ==
    /\ pc = "idle"
    /\ company = NoCompany
    /\ sg_args = NoArgs
    /\ earlier = NoEarlier
    /\ Cleared
    /\ session_state = EmptyTable
    /\ now = 0
    /\ activity = NoActivity
    /\ check = "none"
    /\ rendered = {}
    /\ ticker = NoTicker
    /\ should_analyze = FALSE
    /\ scores = NoScores
    /\ cards = NoCards
    /\ widgets = NoWidgets

\* value, key = safe_get(df, keys, index)
SafeGetCall ==
    /\ pc = "idle"
    /\ Offline
    /\ \E df \in SafeGetTables, index \in 0..MaxPeriods :
          /\ sg_args' = [df |-> df, keys |-> CurrentLiabilityKeys, index |-> index]
          /\ ret' = SafeGet(df, CurrentLiabilityKeys, index)
    /\ pc' = "sg_done"
    /\ UNCHANGED <<company, problematic_values, substituted_values, propagated>>
    /\ UNCHANGED mertonLocals
    /\ UNCHANGED earlier
    /\ UNCHANGED sessionVars

\* the tuple r a score function returns (or the exception that leaves it)
Returned(r) ==
    /\ ret' = [f \in DOMAIN r \ {"problematic", "substituted", "propagated"} |-> r[f]]
    /\ problematic_values' = r.problematic
    /\ substituted_values' = r.substituted
    /\ propagated' = r.propagated

\* z_score, problematic_values, substituted_values = calculate_z_score(ticker)
ZCall ==
    /\ pc = "idle"
    /\ Offline
    /\ \E c \in ZCompanies : company' = c /\ Returned(ZScore(c))
    /\ pc' = "z_done"
    /\ UNCHANGED sg_args
    /\ UNCHANGED mertonLocals
    /\ UNCHANGED earlier
    /\ UNCHANGED sessionVars

\* o_score, prob_default, ... = calculate_ohlson_score(company)
OCall ==
    /\ pc = "idle"
    /\ Offline
    /\ \E c \in OCompanies : company' = c /\ Returned(OScore(c))
    /\ pc' = "o_done"
    /\ UNCHANGED sg_args
    /\ UNCHANGED mertonLocals
    /\ UNCHANGED earlier
    /\ UNCHANGED sessionVars

\* calculate_merton_default(company) is entered
MertonCall ==
    /\ pc = "idle"
    /\ Offline
    /\ \E c \in MertonCompanies : company' = c
    /\ pc' = "m_hist"
    /\ UNCHANGED <<sg_args, problematic_values, substituted_values, ret, propagated>>
    /\ UNCHANGED mertonLocals
    /\ UNCHANGED earlier
    /\ UNCHANGED sessionVars

Done == {"sg_done", "z_done", "o_done", "m_done"}

\* the caller takes the result; the next call starts from fresh locals
Return ==
    /\ pc \in Done
    /\ pc' = "idle"
    /\ company' = NoCompany
    /\ sg_args' = NoArgs
    /\ problematic_values' = <<>>
    /\ substituted_values' = <<>>
    /\ requested' = <<>>
    /\ stock_data' = "none"
    /\ equity_vol' = Unset
    /\ market_cap' = Unset
    /\ total_liabilities' = Unset
    /\ V_A' = Unset
    /\ sigma_A' = Unset
    /\ i' = 0
    /\ converged' = FALSE
    /\ loop_exit' = "none"
    /\ ret' = NoRet
    /\ propagated' = FALSE
    /\ earlier' = NoEarlier
    /\ UNCHANGED sessionVars

\* the outputs of the finished call, kept for comparison
Outputs ==
    [company |-> company, ret |-> ret, problematic |-> problematic_values,
     substituted |-> substituted_values]

\* note lists that outlive the call (kept at module level, say)
StaleLocals ==
    /\ UNCHANGED <<problematic_values, substituted_values>>
    /\ requested' = <<>>
    /\ stock_data' = "none"
    /\ equity_vol' = Unset
    /\ market_cap' = Unset
    /\ total_liabilities' = Unset
    /\ V_A' = Unset
    /\ sigma_A' = Unset
    /\ i' = 0
    /\ converged' = FALSE
    /\ loop_exit' = "none"

\* the frame of a new call of calculate_merton_default: the two note lists
\* are created empty (lines 872-873), no other local has a value yet
FreshLocals ==
    /\ problematic_values' = <<>>
    /\ substituted_values' = <<>>
    /\ requested' = <<>>
    /\ stock_data' = "none"
    /\ equity_vol' = Unset
    /\ market_cap' = Unset
    /\ total_liabilities' = Unset
    /\ V_A' = Unset
    /\ sigma_A' = Unset
    /\ i' = 0
    /\ converged' = FALSE
    /\ loop_exit' = "none"

\* the caller keeps the result and calls calculate_merton_default(c) next
MertonNext(c) ==
    /\ earlier' = Outputs
    /\ company' = c
    /\ pc' = "m_hist"
    /\ FreshLocals
    /\ ret' = NoRet
    /\ propagated' = FALSE
    /\ UNCHANGED sg_args
    /\ UNCHANGED sessionVars

\* calculate_merton_default is called a second time on the same company
MertonRepeat ==
    /\ pc = "m_done"
    /\ earlier = NoEarlier
    /\ MertonNext(company)

\* calculate_merton_default is called next on a company that differs in a
\* larger market capitalisation only
MertonLargerEquity ==
    /\ pc = "m_done"
    /\ earlier = NoEarlier
    /\ \E c \in LargerEquity(company) : MertonNext(c)

(***************************************************************************)
(* The login system (src/login_system.py) and the runs of main.            *)
(*                                                                         *)
(* Streamlit runs main from top to bottom on every interaction of the      *)
(* user; st.session_state outlives the runs.  The calculators do not read  *)
(* or write the session: their calls are followed on their own, before     *)
(* the first run of main, and the analysis inside a run is one step.       *)
(* Times are in minutes.                                                   *)
(***************************************************************************)

\* LoginManager(timeout_minutes=30)
timeout_minutes == 30
\* the clock is followed for MaxTicks waits between runs
MaxTicks == 2
\* the user waits just under, exactly, or just over the timeout between runs
Gaps == {timeout_minutes - 1, timeout_minutes, timeout_minutes + 1}

Emails == {"demo@example.com", "admin@example.com", "guest@example.com"}
Passwords == {"demo123", "admin123", "letmein"}

\* hash_password: PBKDF2-HMAC-SHA256 under the fixed salt, taken to be free
\* of collisions
hash_password(password) == <<"pbkdf2_hmac", "financial_analyzer_salt", password>>

\* self.users
users ==
    "demo@example.com" :> hash_password("demo123")
    @@ "admin@example.com" :> hash_password("admin123")

\* a verification that looks at the email only
VerifyEmailOnly(email, password) == email \in DOMAIN users

verify_password(email, password) ==
    IF email \notin DOMAIN users THEN FALSE
    ELSE hash_password(password) = users[email]

\* LoginManager.__init__: the keys a session lacks are created
InitSession(ss) == ss @@ ("login_time" :> NoTime @@ "authenticated" :> FALSE)

\* a login that leaves login_time as it was
LoginNoTime(ss, email, password, t) ==
    IF verify_password(email, password)
    THEN [result |-> TRUE,
          state |-> ("authenticated" :> TRUE @@ "user_email" :> email) @@ ss]
    ELSE [result |-> FALSE, state |-> ss]

\* LoginManager.login: [result, state]
Login(ss, email, password, t) ==
    IF verify_password(email, password)
    THEN [result |-> TRUE,
          state |-> ("authenticated" :> TRUE @@ "login_time" :> At(t)
                     @@ "user_email" :> email) @@ ss]
    ELSE [result |-> FALSE, state |-> ss]

\* a logout that leaves user_email in the session
LogoutKeepsEmail(ss) ==
    [k \in DOMAIN ss \cup {"authenticated", "login_time"} |->
        IF k = "authenticated" THEN FALSE
        ELSE IF k = "login_time" THEN NoTime ELSE ss[k]]

\* LoginManager.logout
Logout(ss) ==
    [k \in (DOMAIN ss \cup {"authenticated", "login_time"}) \ {"user_email"} |->
        IF k = "authenticated" THEN FALSE
        ELSE IF k = "login_time" THEN NoTime ELSE ss[k]]

\* a check that accepts without renewing login_time
CheckOutcomeFixedWindow(ss, t) ==
    IF ~ss["authenticated"] THEN [result |-> FALSE, state |-> ss]
    ELSE IF ss["login_time"] = NoTime THEN [result |-> FALSE, state |-> ss]
    ELSE IF t - ss["login_time"][1] > timeout_minutes
         THEN [result |-> FALSE, state |-> Logout(ss)]
         ELSE [result |-> TRUE, state |-> ss]

\* LoginManager.check_session at time t: [result, state]
CheckOutcome(ss, t) ==
    IF ~ss["authenticated"] THEN [result |-> FALSE, state |-> ss]
    ELSE IF ss["login_time"] = NoTime THEN [result |-> FALSE, state |-> ss]
    ELSE IF t - ss["login_time"][1] > timeout_minutes
         THEN [result |-> FALSE, state |-> Logout(ss)]
         ELSE [result |-> TRUE, state |-> [ss EXCEPT !["login_time"] = At(t)]]

\* a gate that lets the run go on whatever the check answered
AfterCheckOpen(result) == "r_logout"

\* initialize_login_system after the check: the login page and st.stop(),
\* or on to the sidebar's logout button
AfterCheck(result) == IF result THEN "r_logout" ELSE "r_login"

calcVars == <<company, sg_args, problematic_values, substituted_values, ret,
              propagated, earlier>>

\* time passes between two runs
Tick ==
    /\ pc = "idle"
    /\ ~Offline
    /\ \E d \in Gaps :
          /\ now + d <= MaxTicks * (timeout_minutes + 1)
          /\ now' = now + d
    /\ UNCHANGED <<pc, session_state, activity, check, rendered>>
    /\ UNCHANGED mainLocals
    /\ UNCHANGED calcVars
    /\ UNCHANGED mertonLocals

\* an interaction (or a rerun) starts main: initialize_login_system builds
\* its LoginManager
RunStart ==
    /\ pc \in {"idle", "rerun"}
    /\ session_state' = InitSession(session_state)
    /\ check' = "none"
    /\ rendered' = {}
    /\ ticker' = NoTicker
    /\ should_analyze' = FALSE
    /\ scores' = NoScores
    /\ cards' = NoCards
    /\ widgets' = NoWidgets
    /\ pc' = "r_check"
    /\ UNCHANGED <<now, activity>>
    /\ UNCHANGED calcVars
    /\ UNCHANGED mertonLocals

\* if not login_manager.check_session(): ...
CheckSession ==
    /\ pc = "r_check"
    /\ LET o == CheckOutcome(session_state, now)
       IN  /\ session_state' = o.state
           /\ check' = IF o.result THEN "ok" ELSE "refused"
           /\ activity' = IF o.result THEN [activity EXCEPT !.seen = At(now)]
                          ELSE IF o.state # session_state
                          THEN [activity EXCEPT !.expired = At(now)]
                          ELSE activity
           /\ pc' = AfterCheck(o.result)
    /\ UNCHANGED <<now, rendered>>
    /\ UNCHANGED mainLocals
    /\ UNCHANGED calcVars
    /\ UNCHANGED mertonLocals

\* render_login_page draws the form
LoginPage ==
    /\ pc = "r_login"
    /\ rendered' = rendered \cup {"login"}
    /\ pc' = "r_form"
    /\ UNCHANGED <<session_state, now, activity, check>>
    /\ UNCHANGED mainLocals
    /\ UNCHANGED calcVars
    /\ UNCHANGED mertonLocals

\* "Sign In" was not pressed: st.stop() ends the run
LoginStop ==
    /\ pc = "r_form"
    /\ pc' = "idle"
    /\ UNCHANGED sessionVars
    /\ UNCHANGED calcVars
    /\ UNCHANGED mertonLocals

\* "Sign In" was pressed: login(email, password), then a rerun on success,
\* the error message and st.stop() otherwise
LoginSubmit ==
    /\ pc = "r_form"
    /\ \E email \in Emails, password \in Passwords :
          LET o == Login(InitSession(session_state), email, password, now)
          IN  /\ session_state' = o.state
              /\ activity' = IF o.result
                             THEN [login |-> At(now), seen |-> At(now),
                                   expired |-> NoTime]
                             ELSE activity
              /\ pc' = IF o.result THEN "rerun" ELSE "idle"
    /\ UNCHANGED <<now, check, rendered>>
    /\ UNCHANGED mainLocals
    /\ UNCHANGED calcVars
    /\ UNCHANGED mertonLocals

\* the sidebar's "Logout" button: logout() and a rerun when pressed
LogoutButton ==
    /\ pc = "r_logout"
    /\ \E pressed \in BOOLEAN :
          IF pressed
          THEN session_state' = Logout(session_state) /\ pc' = "rerun"
          ELSE UNCHANGED session_state /\ pc' = "r_header"
    /\ UNCHANGED <<now, activity, check, rendered>>
    /\ UNCHANGED mainLocals
    /\ UNCHANGED calcVars
    /\ UNCHANGED mertonLocals

\* get_merton_color(prob)
get_merton_color(prob) ==
    IF FLt(prob, Py(5, -2)) THEN "rgba(76, 175, 80, 0.2)"
    ELSE IF FLt(prob, Py(15, -2)) THEN "rgba(255, 193, 7, 0.2)"
    ELSE "rgba(255, 82, 82, 0.2)"

Band(status, color, desc) == [status |-> status, color |-> color, desc |-> desc]

\* get_status_and_color(z_score=None, prob_default=None)
get_status_and_color(z_score, prob_default) ==
    IF z_score # None
    THEN IF FGt(z_score, Py(299, -2))
         THEN Band("Safe Zone", "rgba(76, 175, 80, 0.2)",
                   "Strong financial position with low bankruptcy risk.")
         ELSE IF FGt(z_score, Py(181, -2))
         THEN Band("Grey Zone", "rgba(255, 193, 7, 0.2)",
                   "Some financial concerns present. Monitor closely.")
         ELSE Band("Distress Zone", "rgba(255, 82, 82, 0.2)",
                   "High risk of financial distress. Immediate action recommended.")
    ELSE IF prob_default # None
    THEN IF FLt(prob_default, Py(3, -1))
         THEN Band("Low Risk", "rgba(76, 175, 80, 0.2)",
                   "Strong financial position with low default probability.")
         ELSE IF FLt(prob_default, Py(7, -1))
         THEN Band("Moderate Risk", "rgba(255, 193, 7, 0.2)",
                   "Some default risk present. Careful monitoring advised.")
         ELSE Band("High Risk", "rgba(255, 82, 82, 0.2)",
                   "Significant default risk. Immediate attention required.")
    ELSE None

\* the bands the sidebar documents for the Z-score: "> 2.99" Safe Zone,
\* "1.81 - 2.99" Grey Zone, "< 1.81" Distress Zone
SidebarZBands(z) ==
    {b \in {"Safe Zone", "Grey Zone", "Distress Zone"} :
        \/ b = "Safe Zone" /\ FGt(z, Py(299, -2))
        \/ b = "Grey Zone" /\ ~FLt(z, Py(181, -2)) /\ ~FGt(z, Py(299, -2))
        \/ b = "Distress Zone" /\ FLt(z, Py(181, -2))}

\* the bands the sidebar documents for the probability of default: "< 30%"
\* Low Risk, "30-70%" Moderate Risk, "> 70%" High Risk
SidebarProbBands(p) ==
    {b \in {"Low Risk", "Moderate Risk", "High Risk"} :
        \/ b = "Low Risk" /\ FLt(p, Py(3, -1))
        \/ b = "Moderate Risk" /\ ~FLt(p, Py(3, -1)) /\ ~FGt(p, Py(7, -1))
        \/ b = "High Risk" /\ FGt(p, Py(7, -1))}

\* a gate that shows the results when a calculator left a note
AnyScoreOrNote(s) ==
    \/ s.z_score # None \/ s.prob_default # None \/ s.merton_prob # None
    \/ s.notes # {}

\* any([z_score is not None, prob_default is not None, merton_prob is not None])
AnyScore(s) == s.z_score # None \/ s.prob_default # None \/ s.merton_prob # None

\* the three risk cards: each is rendered when its score is not None
CardsOf(s) ==
    [k \in {k \in {"z_score", "prob_default", "merton_prob"} : s[k] # None} |->
        CASE k = "z_score" -> get_status_and_color(s.z_score, None)
          [] k = "prob_default" -> get_status_and_color(None, s.prob_default)
          [] OTHER -> Band("", get_merton_color(s.merton_prob), "")]

\* the notes of the calculators that have some: any([z_problematic, ...])
\* and the three columns under it
NotesOf(s) == s.notes

\* the scores main is followed on: the values around each threshold of the
\* bands, alone and together, and no score at all
ZValues == {Py(180, -2), Py(181, -2), Py(299, -2), Py(3, 0)}
ProbValues == {Py(29, -2), Py(3, -1), Py(7, -1), Py(71, -2)}
MertonValues == {Py(1, -1)}
NoteChoices == {{}, {"z_notes"}, {"z_notes", "o_notes", "merton_notes"}}

Scores(z, p, m, notes) ==
    [outcome |-> "returned", z_score |-> z, prob_default |-> p,
     merton_prob |-> m, notes |-> notes]

ScoreChoices ==
    {Scores(z, None, None, {}) : z \in ZValues}
    \cup {Scores(None, p, None, {}) : p \in ProbValues}
    \cup {Scores(None, None, m, {}) : m \in MertonValues}
    \cup {Scores(None, None, None, n) : n \in NoteChoices}
    \cup {Scores(Py(3, 0), Py(7, -1), Py(1, -1), n) : n \in NoteChoices}

\* parts of the page are rendered and main goes on to position next
Draw(parts, next) ==
    /\ rendered' = rendered \cup parts
    /\ pc' = next
    /\ UNCHANGED <<session_state, now, activity, check>>
    /\ UNCHANGED calcVars
    /\ UNCHANGED mertonLocals

\* a part of the page is rendered and main goes on to position next
Render(part, next) == Draw({part}, next) /\ UNCHANGED mainLocals

\* main returns after rendering a last part: its locals are gone
EndRun(part) ==
    /\ Draw({part}, "idle")
    /\ ticker' = NoTicker
    /\ should_analyze' = FALSE
    /\ scores' = NoScores
    /\ cards' = NoCards
    /\ widgets' = NoWidgets

RenderHeader == pc = "r_header" /\ Render("header", "r_sidebar")

RenderSidebar == pc = "r_sidebar" /\ Render("sidebar", "r_search")

\* if should_analyze: if not ticker: ... return; else the analysis
MainBranch(t, analyze) ==
    IF ~analyze THEN "r_footer"
    ELSE IF t = NoTicker \/ t = Ticker(<<>>) THEN "r_warning"
    ELSE "r_analysis"

(***************************************************************************)
(* render_search_section.  A string is the sequence of its characters.     *)
(***************************************************************************)
Sep == <<" ", "-", " ">>

\* the places where sep occurs in s
Occurrences(s, sep) ==
    {n \in 1..Len(s) : n + Len(sep) - 1 <= Len(s)
                       /\ SubSeq(s, n, n + Len(sep) - 1) = sep}

\* s.split(sep)[0]
BeforeFirst(s, sep) ==
    IF Occurrences(s, sep) = {} THEN s
    ELSE SubSeq(s, 1, (CHOOSE n \in Occurrences(s, sep) :
                          \A k \in Occurrences(s, sep) : n <= k) - 1)

\* s.strip()
RECURSIVE Strip(_)
Strip(s) ==
    IF s = <<>> THEN s
    ELSE IF Head(s) = " " THEN Strip(Tail(s))
    ELSE IF s[Len(s)] = " " THEN Strip(SubSeq(s, 1, Len(s) - 1))
    ELSE s

\* a company that is None, or the suggestion c
NoSelection == <<>>
Selected(c) == <<c>>

\* SearchState.__init__: the keys a session lacks are created
InitSearch(ss) ==
    ss @@ ("selected_company" :> NoSelection @@ "search_query" :> <<>>
           @@ "selected_index" :> -1 @@ "should_analyze" :> FALSE)

\* f"{suggestion['symbol']} - {suggestion['name']}"
QueryOf(suggestion) == suggestion.symbol \o Sep \o suggestion.name

\* handle_suggestion_click(suggestion), up to its st.experimental_rerun()
handle_suggestion_click(ss, suggestion) ==
    [ss EXCEPT !["selected_company"] = Selected(suggestion),
               !["search_query"] = QueryOf(suggestion),
               !["should_analyze"] = TRUE]

\* a ticker taken from the query as it stands, without strip()
TickerUnstripped(ss, current_query) ==
    IF ss["selected_company"] # NoSelection
    THEN Ticker(ss["selected_company"][1].symbol)
    ELSE IF current_query # <<>>
    THEN Ticker(BeforeFirst(current_query, Sep))
    ELSE NoTicker

\* ticker_to_analyze
TickerToAnalyze(ss, current_query) ==
    IF ss["selected_company"] # NoSelection
    THEN Ticker(ss["selected_company"][1].symbol)
    ELSE IF current_query # <<>>
    THEN Ticker(Strip(BeforeFirst(current_query, Sep)))
    ELSE NoTicker

\* a flag that stays set once read
KeepFlag(ss) == ss

\* st.session_state.should_analyze = False
ConsumeFlag(ss) == [ss EXCEPT !["should_analyze"] = FALSE]

\* the text input: its on_change callback has cleared the selection when the
\* user changed the text, and the widget's value is kept under its key
TextInput(ss, w) ==
    ("company_search" :> w.current_query)
    @@ (IF w.changed THEN [ss EXCEPT !["selected_company"] = NoSelection] ELSE ss)

\* if current_query and current_query != st.session_state.search_query
Fetches(ss, w) == w.current_query # <<>> /\ w.current_query # ss["search_query"]

\* st.session_state.search_query = current_query
AfterQuery(ss, w) ==
    IF Fetches(ss, w) THEN [ss EXCEPT !["search_query"] = w.current_query] ELSE ss

\* from the analyze button to the return, on the session ss
SearchReturn(ss, w) ==
    IF w.analyze_button \/ ss["should_analyze"]
    THEN [state |-> ConsumeFlag(ss), rerun |-> FALSE, analyze |-> TRUE,
          ticker |-> TickerToAnalyze(ss, w.current_query)]
    ELSE [state |-> ss, rerun |-> FALSE, analyze |-> FALSE, ticker |-> NoTicker]

\* render_search_section() on the session ss when its widgets answer w:
\* the session it leaves, whether handle_suggestion_click asked for a rerun,
\* and the pair it returns otherwise
SearchSection(ss, w) ==
    IF Fetches(TextInput(ss, w), w) /\ w.suggestions # <<>> /\ w.clicked
    THEN [state |-> handle_suggestion_click(AfterQuery(TextInput(ss, w), w),
                                            w.suggestions[1]),
          rerun |-> TRUE, analyze |-> FALSE, ticker |-> NoTicker]
    ELSE SearchReturn(AfterQuery(TextInput(ss, w), w), w)

\* the texts the user types, and the company the provider suggests
Blank == <<" ">>
Padded == <<" ", "A", " ", "-", " ", "B", " ", "-", " ", "C">>
Typed == {<<>>, Blank, Padded}
Suggestion == [symbol |-> <<"A">>, name |-> <<"B">>]

\* what the text input shows before the user touches it: the value kept
\* under its key, or its value argument when the widget is built anew
Shown(ss) ==
    {ss["search_query"]}
    \cup (IF "company_search" \in DOMAIN ss THEN {ss["company_search"]} ELSE {})

\* get_company_suggestions(query): nothing for a query under two characters,
\* else what the provider answers
SuggestionsFor(query) ==
    IF Len(query) < 2 THEN {<<>>} ELSE {<<>>, <<Suggestion>>}

\* the answers of the widgets on the session ss: the text, changed by the
\* user or not; the suggestions when they are fetched, and whether the
\* markdown of the first one is taken as a click; the analyze button, which
\* is disabled when there is neither a text nor a selected company
WidgetChoices(ss) ==
    {w \in [current_query : Typed \cup Shown(ss), changed : BOOLEAN,
            suggestions : {<<>>, <<Suggestion>>}, clicked : BOOLEAN,
            analyze_button : BOOLEAN] :
        /\ w.changed => w.current_query \in Typed
        /\ ~w.changed => w.current_query \in Shown(ss)
        /\ w.suggestions \in (IF Fetches(TextInput(ss, w), w)
                              THEN SuggestionsFor(w.current_query) ELSE {<<>>})
        /\ w.clicked => w.suggestions # <<>>
        /\ w.analyze_button =>
              (w.current_query # <<>>
               \/ TextInput(ss, w)["selected_company"] # NoSelection)
        /\ w.analyze_button => ~w.clicked}

\* ticker, should_analyze = render_search_section(), and what main does
\* with them: no analysis, the warning and return, or the analysis; a
\* rerun ends the run inside the section
RenderSearch ==
    /\ pc = "r_search"
    /\ \E w \in WidgetChoices(InitSearch(session_state)) :
          /\ widgets' = w
          /\ session_state' = SearchSection(InitSearch(session_state), w).state
          /\ should_analyze' = SearchSection(InitSearch(session_state), w).analyze
          /\ ticker' = SearchSection(InitSearch(session_state), w).ticker
          /\ pc' = IF SearchSection(InitSearch(session_state), w).rerun
                   THEN "rerun"
                   ELSE MainBranch(SearchSection(InitSearch(session_state), w).ticker,
                                   SearchSection(InitSearch(session_state), w).analyze)
    /\ rendered' = rendered \cup {"search"}
    /\ UNCHANGED <<now, activity, check, scores, cards>>
    /\ UNCHANGED calcVars
    /\ UNCHANGED mertonLocals

\* st.warning("Please select a company to analyze.") and return
Warning == pc = "r_warning" /\ EndRun("warning")

\* yf.Ticker(ticker), company.info, the company header and the three
\* calculators; an exception goes to the per-ticker catch-all
Analysis ==
    /\ pc = "r_analysis"
    /\ \/ /\ scores' = [outcome |-> "raised"]
          /\ Draw({}, "r_error")
       \/ /\ scores' \in ScoreChoices
          /\ Draw({"analysis"}, "r_scores")
    /\ UNCHANGED <<ticker, should_analyze, cards, widgets>>

\* if any([...]): the gauges, the risk cards and the metrics, whose
\* formatting raises on a value that is None
ShowScores ==
    /\ pc = "r_scores"
    /\ IF AnyScore(scores)
       THEN /\ cards' = CardsOf(scores)
            /\ \/ Draw({"gauges", "cards", "metrics"}, "r_notes")
               \/ Draw({"gauges", "cards"}, "r_error")
       ELSE /\ cards' = cards
            /\ Draw({}, "r_footer")
    /\ UNCHANGED <<ticker, should_analyze, scores, widgets>>

\* the expander of the data quality notes
ShowNotes ==
    /\ pc = "r_notes"
    /\ Draw(NotesOf(scores), "r_footer")
    /\ UNCHANGED mainLocals

\* except Exception as e: st.error(f"Error analyzing company: ...")
AnalysisError == pc = "r_error" /\ Render("error", "r_footer")

RenderFooter == pc = "r_footer" /\ EndRun("footer")

Next ==
    \/ SafeGetCall
    \/ ZCall
    \/ OCall
    \/ MertonCall
    \/ FetchHistory
    \/ Volatility
    \/ FetchStatements
    \/ Equity
    \/ Debt
    \/ InitialGuess
    \/ Iterate
    \/ Final
    \/ MertonRepeat
    \/ MertonLargerEquity
    \/ Return
    \/ Tick
    \/ RunStart
    \/ CheckSession
    \/ LoginPage
    \/ LoginStop
    \/ LoginSubmit
    \/ LogoutButton
    \/ RenderHeader
    \/ RenderSidebar
    \/ RenderSearch
    \/ Warning
    \/ Analysis
    \/ ShowScores
    \/ ShowNotes
    \/ AnalysisError
    \/ RenderFooter

Spec == Init /\ [][Next]_vars

\* a step of a call that is in the loop: one more update, or the loop is left
LoopStep ==
    /\ pc = "m_loop"
    /\ \/ i' = i + 1 /\ pc' \in {"m_loop", "m_final"}
       \/ i' = i /\ pc' = "m_final"

\* the step of a call that has left the loop: it returns
FinalStep == pc = "m_final" /\ pc' = "m_done"

\* a call that is running keeps running: Python executes the loop and the
\* code after it without suspension
FairSpec == Spec /\ WF_<<pc, i>>(LoopStep) /\ WF_pc(FinalStep)

(***************************************************************************)
(* The LoginManager on its own: its methods called in any order on one     *)
(* session, with any waits in between.  ret records the last call.         *)
(***************************************************************************)
ManagerFrame ==
    /\ UNCHANGED <<activity, rendered, ticker, should_analyze, scores, cards,
                   widgets>>
    /\ UNCHANGED <<company, sg_args, problematic_values, substituted_values,
                   propagated, earlier>>
    /\ UNCHANGED mertonLocals

\* login_manager = LoginManager()
NewManager ==
    /\ pc \in {"idle", "api"}
    /\ session_state' = InitSession(session_state)
    /\ ret' = [call |-> "__init__"]
    /\ pc' = "api"
    /\ UNCHANGED <<now, check>>
    /\ ManagerFrame

\* login_manager.login(email, password)
CallLogin ==
    /\ pc = "api"
    /\ \E email \in Emails, password \in Passwords :
          /\ session_state' = Login(session_state, email, password, now).state
          /\ ret' = [call |-> "login", email |-> email, password |-> password,
                     result |-> Login(session_state, email, password, now).result]
    /\ UNCHANGED <<pc, now, check>>
    /\ ManagerFrame

\* login_manager.logout()
CallLogout ==
    /\ pc = "api"
    /\ session_state' = Logout(session_state)
    /\ ret' = [call |-> "logout"]
    /\ UNCHANGED <<pc, now, check>>
    /\ ManagerFrame

\* login_manager.check_session()
CallCheck ==
    /\ pc = "api"
    /\ session_state' = CheckOutcome(session_state, now).state
    /\ check' = IF CheckOutcome(session_state, now).result THEN "ok" ELSE "refused"
    /\ ret' = [call |-> "check_session",
               result |-> CheckOutcome(session_state, now).result]
    /\ UNCHANGED <<pc, now>>
    /\ ManagerFrame

\* time passes between two calls
Wait ==
    /\ pc = "api"
    /\ \E d \in Gaps :
          /\ now + d <= MaxTicks * (timeout_minutes + 1)
          /\ now' = now + d
    /\ UNCHANGED <<pc, session_state, check, ret>>
    /\ ManagerFrame

ManagerNext ==
    \/ NewManager
    \/ CallLogin
    \/ CallLogout
    \/ CallCheck
    \/ Wait

ManagerSpec == Init /\ [][ManagerNext]_vars


(***************************************************************************)
(* Part 5.  Properties.                                                    *)
(***************************************************************************)

Has(seq, x) == \E j \in 1..Len(seq) : seq[j] = x

CalcDone == {"z_done", "o_done", "m_done"}
AfterVolatility == {"m_stmt", "m_equity", "m_debt", "m_init", "m_loop", "m_final",
                    "m_done"}

\* the score a finished calculator call returned
Score ==
    IF pc = "z_done" THEN ret.z_score
    ELSE IF pc = "o_done" THEN ret.o_score
    ELSE ret.prob_default

Positive(x) == FGt(x, PyZero)
Between(x, lo, hi) == IsFin(x) /\ ~FLt(x, lo) /\ ~FGt(x, hi)

\* some row of the table under one of the keys has a usable latest value
Usable(df, keys) ==
    \E j \in 1..Len(keys) :
        /\ keys[j] \in DOMAIN df
        /\ Len(df[keys[j]]) >= 1
        /\ ~IsProblematic(df[keys[j]][1])

\* no source of the equity chain yields a usable market value of equity
EquityMissing(c) ==
    /\ IsProblematic(InfoGet(c.info, "marketCap"))
    /\ \/ /\ IsProblematic(InfoGet(c.info, "sharesOutstanding"))
          /\ IsProblematic(InfoGet(c.info, "floatShares"))
       \/ /\ IsProblematic(InfoGet(c.info, "currentPrice"))
          /\ IsProblematic(c.last_close)
    /\ ~Usable(c.balance_sheet, EquityKeys)

\* no source of the debt chain yields a usable face value of debt
DebtMissing(c) ==
    /\ ~Usable(c.balance_sheet, LiabilityKeys)
    /\ IsProblematic(FAdd(Get(c.balance_sheet, CurrentLiabilityKeys),
                          Get(c.balance_sheet, LongTermDebtKeys)))
    /\ ~Usable(c.balance_sheet, TotalDebtKeys)

-----------------------------------------------------------------------------
\* C1: whenever the Merton solver was reached with E > 0, F > 0 and
\* sigma_E > 0, the returned probability lies in [0.01, 0.99] and the
\* returned distance to default is finite, however the loop ended.
C1_SolverResultInRange ==
    (/\ pc = "m_done"
     /\ loop_exit # "none"
     /\ Positive(market_cap) /\ Positive(total_liabilities) /\ Positive(equity_vol))
    => /\ Between(ret.prob_default, ProbFloor, ProbCap)
       /\ IsFin(ret.distance_to_default)

-----------------------------------------------------------------------------
\* C2: for each of the three calculators, an absent (None) score comes with
\* a non-empty problematic list.
C2_AbsentScoreHasReason ==
    /\ (pc = "z_done" /\ ret.z_score.k = "none") => problematic_values # <<>>
    /\ (pc = "o_done" /\ (ret.o_score.k = "none" \/ ret.prob_default.k = "none"))
          => problematic_values # <<>>
    /\ (pc = "m_done"
        /\ (ret.prob_default.k = "none" \/ ret.distance_to_default.k = "none"))
          => problematic_values # <<>>

\* the Z-score is absent for want of total assets, and says so
C2_Witness ==
    /\ pc = "z_done"
    /\ ret.z_score.k = "none"
    /\ problematic_values = <<"Total Assets">>

-----------------------------------------------------------------------------
\* C3: no failure inside a calculator reaches the caller: every finished call
\* has returned its tuple, the score a number or None, and a call on which
\* the data provider failed returns an absent score with a note.
ProviderFailed ==
    \/ ~company.stmt_ok
    \/ pc = "m_done" /\ \E j \in 1..Len(requested) : ~company.hist_ok[requested[j]]

C3_NoFailurePropagates ==
    /\ ~propagated
    /\ pc \in CalcDone =>
          /\ Score.k = "none" \/ IsNum(Score)
          /\ ProviderFailed => (Score.k = "none" /\ problematic_values # <<>>)

\* the statements of the Z-score's company could not be fetched
C3_Witness ==
    /\ pc = "z_done"
    /\ ~company.stmt_ok
    /\ ret.z_score.k = "none"
    /\ Has(problematic_values, "Calculation Error: e")
    /\ ~propagated

-----------------------------------------------------------------------------
\* C4: when the market value of equity or the face value of debt is missing
\* or zero, calculate_merton_default returns an absent probability and an
\* absent distance to default with a problematic-value note, and no
\* exception leaves it.
C4_MissingEquityOrDebt ==
    (pc = "m_done" /\ (EquityMissing(company) \/ DebtMissing(company)))
    => /\ ret = NoneRet
       /\ problematic_values # <<>>
       /\ ~propagated

\* the call got as far as the debt block and found no usable debt
C4_Witness ==
    /\ pc = "m_done"
    /\ DebtMissing(company)
    /\ ret = NoneRet
    /\ Has(problematic_values, "Total Liabilities")

-----------------------------------------------------------------------------
\* C5: the history windows are asked in the order 1y, 6mo, 3mo, moving on
\* only from a window of fewer than 30 rows; the first window of at least 30
\* rows is the one used, with a substitution note naming it unless it is 1y;
\* when all three are short the result is absent with "Insufficient stock
\* price history" and nothing further is computed.  (A fetch that raises
\* ends the search with the fetch-error note.)
WindowNote(p) ==
    IF p = "6mo" THEN "Using 6-month price history for volatility"
    ELSE "Using 3-month price history for volatility"

WindowNotes == {WindowNote("6mo"), WindowNote("3mo")}

NothingComputed ==
    /\ equity_vol = Unset /\ market_cap = Unset /\ total_liabilities = Unset
    /\ V_A = Unset /\ sigma_A = Unset /\ i = 0 /\ loop_exit = "none"

C5_HistoryWindows ==
    requested # <<>> =>
       /\ requested = SubSeq(Periods, 1, Len(requested))
       /\ \A j \in 1..(Len(requested) - 1) :
             /\ company.hist_ok[requested[j]]
             /\ company.hist_len[requested[j]] < MinObs
       /\ IF ~company.hist_ok[requested[Len(requested)]]
          THEN /\ pc = "m_done" /\ ret = NoneRet
               /\ problematic_values = <<"Error fetching stock data: e">>
               /\ NothingComputed
          ELSE IF company.hist_len[requested[Len(requested)]] >= MinObs
          THEN /\ stock_data = requested[Len(requested)]
               /\ ~Has(problematic_values, "Insufficient stock price history")
               /\ \A n \in WindowNotes :
                     Has(substituted_values, n)
                     <=> (/\ requested[Len(requested)] # "1y"
                          /\ n = WindowNote(requested[Len(requested)]))
          ELSE /\ requested = Periods
               /\ pc = "m_done" /\ ret = NoneRet
               /\ problematic_values = <<"Insufficient stock price history">>
               /\ substituted_values = <<>>
               /\ NothingComputed

\* 1y and 6mo were short, 3mo was used and the call went on to a result
C5_Witness ==
    /\ pc = "m_done"
    /\ requested = Periods
    /\ stock_data = "3mo"
    /\ Has(substituted_values, "Using 3-month price history for volatility")
    /\ ret # NoneRet

-----------------------------------------------------------------------------
\* C6: when the closing prices have zero or undefined return variance and
\* the high/low spread does not (and no adjusted close takes its place), the
\* volatility is the one derived from the high-low range and no volatility
\* failure is reported; the fixed 0.30 is used only when the last series
\* reached has zero or undefined variance too.
HistoryUsable ==
    /\ pc \in AfterVolatility
    /\ ~Has(problematic_values, "Insufficient stock price history")
    /\ ~Has(problematic_values, "Error fetching stock data: e")

C6_HighLowFallback ==
    HistoryUsable =>
       /\ (/\ Degenerate(company.close_std)
           /\ company.has_adj => Degenerate(company.adj_std)
           /\ ~Degenerate(company.hl_std))
          => /\ ~Has(problematic_values, "Error calculating volatility: e")
             /\ equity_vol = FMul(company.hl_std, Sqrt252)
             /\ Has(substituted_values, "Using high-low range for volatility calculation")
       /\ Has(substituted_values, "Using market average volatility (0.3)")
          => /\ Degenerate(company.close_std)
             /\ Degenerate(company.adj_std)
             /\ Degenerate(company.hl_std)

-----------------------------------------------------------------------------
\* C7: the iteration loop is entered only with a strictly positive market
\* value of equity and a strictly positive face value of debt.
C7_LoopEntersPositive ==
    pc = "m_loop" => (Positive(market_cap) /\ Positive(total_liabilities))

-----------------------------------------------------------------------------
\* C8: safe_get returns the value and the name of the first key, in the
\* order of keys, that is a row of the table whose value at the period is a
\* finite non-zero number of magnitude at least 1e-6; when there is none, or
\* the period does not exist, it returns the sentinel (0, None).
Qualifies(df, key, index) ==
    /\ key \in DOMAIN df
    /\ index + 1 <= Len(df[key])
    /\ df[key][index + 1].k = "fin"
    /\ df[key][index + 1].m # 0
    /\ df[key][index + 1].e >= -13

C8_SafeGetFirstUsable ==
    pc = "sg_done" =>
       IF \E j \in 1..Len(sg_args.keys) :
             Qualifies(sg_args.df, sg_args.keys[j], sg_args.index)
       THEN \E j \in 1..Len(sg_args.keys) :
               /\ Qualifies(sg_args.df, sg_args.keys[j], sg_args.index)
               /\ \A h \in 1..(j - 1) :
                     ~Qualifies(sg_args.df, sg_args.keys[h], sg_args.index)
               /\ ret = [value |-> sg_args.df[sg_args.keys[j]][sg_args.index + 1],
                         key |-> sg_args.keys[j]]
       ELSE ret = [value |-> PyZero, key |-> NoKey]

\* the first key is a row of the table with a problematic value, and the
\* second key's value is returned
C8_Witness ==
    /\ pc = "sg_done"
    /\ sg_args.keys[1] \in DOMAIN sg_args.df
    /\ sg_args.index = 1
    /\ ret.key = sg_args.keys[2]

-----------------------------------------------------------------------------
\* C9 as stated: whenever a field name is on the problematic list of the
\* Z-score or the O-score, the returned score is absent.
C9_AnyProblemMeansAbsent ==
    /\ (pc = "z_done" /\ problematic_values # <<>>) => ret.z_score.k = "none"
    /\ (pc = "o_done" /\ problematic_values # <<>>) => ret.o_score.k = "none"

\* C9: the Z-score and the O-score are absent exactly when Total Assets can
\* neither be resolved nor substituted, or an exception was caught; an
\* unresolved Retained Earnings, EBIT, Market Value, Sales or Net Income is
\* named on the problematic list and the score is still returned.
C9_AbsentOnlyWithoutTotalAssets ==
    /\ pc = "z_done" =>
          (ret.z_score.k = "none"
           <=> \/ Has(problematic_values, "Total Assets")
               \/ Has(problematic_values, "Calculation Error: e"))
    /\ pc = "o_done" =>
          /\ ret.o_score.k = "none"
             <=> \/ Has(problematic_values, "Total Assets")
                 \/ Has(problematic_values, "Calculation Error: e")
          /\ ret.prob_default.k = "none" <=> ret.o_score.k = "none"
    /\ pc \in {"z_done", "o_done"} =>
          (Has(problematic_values, "Total Assets")
           <=> /\ company.stmt_ok
               /\ ~Usable(company.balance_sheet, TotalAssetsKeys)
               /\ IsProblematic(FAdd(Get(company.balance_sheet, CurrentAssetsKeys2),
                                     Get(company.balance_sheet, NonCurrentAssetsKeys))))

\* Retained Earnings could not be resolved and the Z-score was returned
C9_Witness ==
    /\ pc = "z_done"
    /\ Has(problematic_values, "Retained Earnings")
    /\ IsFin(ret.z_score)

-----------------------------------------------------------------------------
\* C10: the loop runs its update at most max_iterations times, leaves early
\* only as converged (or aborted), and a call that has entered the loop
\* always reaches its return.
LoopBounded ==
    /\ i <= max_iterations
    /\ loop_exit = "exhausted" => (i = max_iterations /\ ~converged)
    /\ loop_exit = "converged" => (converged /\ pc \in {"m_final", "m_done"})
    /\ pc = "m_loop" => loop_exit = "none"

\* every step out of the loop is a counted update or an exit, and the step
\* after the loop is the return
StepsCounted ==
    /\ pc = "m_loop" => LoopStep
    /\ pc = "m_final" => FinalStep

C10_LoopTerminates ==
    /\ []LoopBounded
    /\ [][StepsCounted]_vars
    /\ (pc = "m_loop") ~> (pc = "m_done")

\* the loop used all its iterations and the call returned
C10_Witness ==
    /\ pc = "m_done"
    /\ loop_exit = "exhausted"
    /\ i = max_iterations
    /\ ret # NoneRet

-----------------------------------------------------------------------------
\* C11: a loop that used all max_iterations iterations without passing the
\* convergence test hands its last damped (V_A, sigma_A) to the final
\* computation, and the note "Using last iteration values (no convergence)"
\* is on the substituted list of a call that reached the loop exactly when
\* the loop ended unconverged (exhausted or aborted), never when it
\* converged, and never before the loop has ended.
NoConvergence == "Using last iteration values (no convergence)"

LoopEndedUnconverged == loop_exit \in {"exhausted", "aborted"}

C11_Inv ==
    /\ pc \in {"m_hist", "m_vol", "m_stmt", "m_equity", "m_debt", "m_init", "m_loop",
               "m_final"}
          => ~Has(substituted_values, NoConvergence)
    /\ pc = "m_done" =>
          /\ Has(substituted_values, NoConvergence) <=> LoopEndedUnconverged
          /\ loop_exit = "converged" => converged
          /\ loop_exit = "exhausted" =>
                /\ i = max_iterations
                /\ ret.distance_to_default = DistanceToDefault(V_A, sigma_A)

\* leaving the loop changes neither V_A nor sigma_A
C11_Step ==
    (pc = "m_loop" /\ pc' = "m_final") => (V_A' = V_A /\ sigma_A' = sigma_A)

C11_NoConvergenceNote == []C11_Inv /\ [][C11_Step]_vars

\* an exhausted loop: the note is there and the result is the one of the
\* values the last iteration left
C11_Witness ==
    /\ pc = "m_done"
    /\ loop_exit = "exhausted"
    /\ ~converged
    /\ Has(substituted_values, NoConvergence)
    /\ IsFin(V_A) /\ IsFin(sigma_A)
    /\ ret.distance_to_default = DistanceToDefault(V_A, sigma_A)

-----------------------------------------------------------------------------
\* C12: an iteration whose arithmetic fails (the argument of the logarithm
\* is not positive, sigma_A * sqrt(T) is zero, or the CDF value divided by
\* is zero) ends the loop as aborted at that iteration and leaves V_A and
\* sigma_A as they were before it.
IterationFails ==
    \/ ~Positive(FDiv(V_A, total_liabilities))
    \/ IsZero(FMul(sigma_A, SqrtT))
    \/ IsZero(NormCdf(D1(V_A, sigma_A)))

C12_Step ==
    (pc = "m_loop" /\ i' = i + 1 /\ IterationFails)
    => /\ loop_exit' = "aborted"
       /\ pc' = "m_final"
       /\ V_A' = V_A /\ sigma_A' = sigma_A

C12_FailureAbortsLoop == [][C12_Step]_vars

-----------------------------------------------------------------------------
\* C13: the probability a call returns from its final computation is the
\* raw Phi(-DD) when that lies in [0.01, 0.99], 0.99 when the raw value is
\* above 0.99 and 0.01 when it is below 0.01; "Capped probability at 99%"
\* is on the substituted list exactly when it was capped and "Floored
\* probability at 1%" exactly when it was floored.
CapNote == "Capped probability at 99%"
FloorNote == "Floored probability at 1%"

FinalReturned == pc = "m_done" /\ loop_exit # "none" /\ ret # NoneRet

ClampedFrom(raw) ==
    /\ Between(raw, ProbFloor, ProbCap) => ret.prob_default = raw
    /\ FGt(raw, ProbCap) => ret.prob_default = ProbCap
    /\ FLt(raw, ProbFloor) => ret.prob_default = ProbFloor
    /\ Has(substituted_values, CapNote) <=> FGt(raw, ProbCap)
    /\ Has(substituted_values, FloorNote) <=> FLt(raw, ProbFloor)

C13_ClampWithNote ==
    /\ FinalReturned => ClampedFrom(NormCdf(FNeg(ret.distance_to_default)))
    /\ (pc \in {"m_hist", "m_vol", "m_stmt", "m_equity", "m_debt", "m_init", "m_loop",
                "m_final", "m_done"} /\ ~FinalReturned)
          => (~Has(substituted_values, CapNote) /\ ~Has(substituted_values, FloorNote))

\* a raw probability below 1% was floored, with its note
C13_Witness ==
    /\ FinalReturned
    /\ FLt(NormCdf(FNeg(ret.distance_to_default)), ProbFloor)
    /\ ret.prob_default = ProbFloor
    /\ Has(substituted_values, FloorNote)

-----------------------------------------------------------------------------
\* C14: a second call of calculate_merton_default on the same company
\* starts with no solver state (empty note lists, no V_A, no sigma_A,
\* iteration counter 0, not converged) and returns the probability, the
\* distance to default and the two note lists the first call returned.
C14_SameInputsSameOutputs ==
    /\ (pc = "m_hist" /\ earlier # NoEarlier) =>
          /\ problematic_values = <<>> /\ substituted_values = <<>>
          /\ V_A = Unset /\ sigma_A = Unset /\ i = 0 /\ ~converged
          /\ ret = NoRet
    /\ (pc = "m_done" /\ earlier # NoEarlier /\ earlier.company = company) =>
          /\ ret = earlier.ret
          /\ problematic_values = earlier.problematic
          /\ substituted_values = earlier.substituted

\* both calls ran the loop to exhaustion and left the same notes and result
C14_Witness ==
    /\ pc = "m_done"
    /\ earlier # NoEarlier
    /\ earlier.company = company
    /\ loop_exit = "exhausted"
    /\ earlier.substituted # <<>>
    /\ substituted_values = earlier.substituted
    /\ ret = earlier.ret

-----------------------------------------------------------------------------
\* the second call was made on a larger market capitalisation, with the
\* same liabilities and the same volatility, and both calls have returned
LargerEquityDone ==
    /\ pc = "m_done"
    /\ earlier # NoEarlier
    /\ earlier.company # company

ClampBounds == {ProbCap, ProbFloor}

-----------------------------------------------------------------------------
\* C18: in an iteration with candidates V_A_new and sigma_A_new, when both
\* |V_A_new - V_A| < 1e-4 and |sigma_A_new - sigma_A| < 1e-4 the loop stops
\* at once with converged = True and V_A, sigma_A as they were; otherwise
\* V_A and sigma_A become the damped averages and the loop goes on.
BothSmall(va_new, sa_new) ==
    /\ FLt(FAbs(FSub(va_new, V_A)), Py(1, -4))
    /\ FLt(FAbs(FSub(sa_new, sigma_A)), Py(1, -4))

C18_Given(va_new, sa_new) ==
    IF BothSmall(va_new, sa_new)
    THEN /\ converged' /\ loop_exit' = "converged" /\ pc' = "m_final"
         /\ V_A' = V_A /\ sigma_A' = sigma_A
    ELSE /\ ~converged' /\ loop_exit' = "none" /\ pc' = "m_loop"
         /\ V_A' = FMul(Half, FAdd(V_A, va_new))
         /\ sigma_A' = FMul(Half, FAdd(sigma_A, sa_new))

C18_Of(cdf) ==
    C18_Given(FDiv(market_cap, cdf), FDiv(FMul(equity_vol, market_cap), FMul(V_A, cdf)))

C18_Step == (pc = "m_loop" /\ i' = i + 1) => C18_Of(NormCdf(D1(V_A, sigma_A)))

C18_ConvergenceTest == [][C18_Step]_vars

C18_StillBothSmall(cdf) ==
    BothSmall(FDiv(market_cap, cdf), FDiv(FMul(equity_vol, market_cap), FMul(V_A, cdf)))

\* the loop has just stopped as converged, before max_iterations, on values
\* that pass the test
C18_Witness ==
    /\ pc = "m_final"
    /\ converged
    /\ loop_exit = "converged"
    /\ i \in 2..(max_iterations - 1)
    /\ C18_StillBothSmall(NormCdf(D1(V_A, sigma_A)))

-----------------------------------------------------------------------------
\* C19: the loop is entered with V_A = E + F and sigma_A = sigma_E * E / V_A;
\* an iteration that does not converge sets V_A to 0.5 * (V_A + E / Phi(d1))
\* and sigma_A to 0.5 * (sigma_A + sigma_E * E / (V_A * Phi(d1))), both
\* candidates from the V_A and sigma_A held before the iteration; no step of
\* the loop changes E, F or sigma_E (r and T are the constants rf_rate, T).
C19_Damped(cdf) ==
    /\ V_A' = FMul(Half, FAdd(V_A, FDiv(market_cap, cdf)))
    /\ sigma_A' = FMul(Half, FAdd(sigma_A, FDiv(FMul(equity_vol, market_cap),
                                                 FMul(V_A, cdf))))

C19_D1 ==
    FDiv(FAdd(FLog(FDiv(V_A, total_liabilities)),
              FMul(FAdd(Py(5, -2), FMul(Half, FMul(sigma_A, sigma_A))), Py(1, 0))),
         FMul(sigma_A, SqrtT))

C19_Step ==
    /\ (pc = "m_init" /\ pc' = "m_loop") =>
          /\ V_A' = FAdd(market_cap, total_liabilities)
          /\ sigma_A' = FDiv(FMul(equity_vol, market_cap),
                             FAdd(market_cap, total_liabilities))
    /\ (pc = "m_loop" /\ pc' = "m_loop") => C19_Damped(NormCdf(C19_D1))
    /\ pc \in {"m_init", "m_loop"} =>
          /\ market_cap' = market_cap
          /\ total_liabilities' = total_liabilities
          /\ equity_vol' = equity_vol

C19_InitialGuessAndUpdate == [][C19_Step]_vars

\* one damped update away from the initial guess
C19_Witness ==
    /\ pc = "m_loop"
    /\ i = 1
    /\ IsFin(V_A) /\ IsFin(sigma_A)
    /\ V_A # FAdd(market_cap, total_liabilities)
    /\ Positive(market_cap) /\ Positive(total_liabilities)

-----------------------------------------------------------------------------
\* the O-score of company c with tlta and oeneg given, every other term as
\* calculate_ohlson_score computes it
OGiven(c, total_assets, current_assets, current_liabilities, ni, tlta, oeneg) ==
    OFromIncome(FLog(PyMax(total_assets, Py(10000, 0))), tlta,
                FDiv(FSub(current_assets, current_liabilities), total_assets),
                IF ~IsProblematic(current_assets)
                THEN FDiv(current_liabilities, current_assets) ELSE PyZero,
                oeneg, total_assets, ni, OChange(c, ni.value), <<>>).o_score

OGivenFor(c, tlta, oeneg) ==
    OGiven(c, OTotalAssets(c).value, Get(c.balance_sheet, CurrentAssetsKeys2),
           Get(c.balance_sheet, CurrentLiabilityKeys), ONetIncome(c), tlta, oeneg)

OLiabilities(c) == Get(c.balance_sheet, LiabilityKeys2)
OTlta(c) ==
    IF ~IsProblematic(OLiabilities(c))
    THEN FDiv(OLiabilities(c), OTotalAssets(c).value) ELSE PyZero
LiabilitiesExceedAssets(c) == FGt(OLiabilities(c), OTotalAssets(c).value)

OScorePresent == pc = "o_done" /\ IsFin(ret.o_score)
Near(x, y) == FLt(FAbs(FSub(x, y)), Py(1, -5))

\* the two oeneg terms together: +0.65 when total liabilities exceed total
\* assets, nothing otherwise
OenegNet065 ==
    Near(FSub(ret.o_score, OGivenFor(company, OTlta(company), PyZero)),
         IF LiabilitiesExceedAssets(company) THEN Py(65, -2) ELSE PyZero)

\* C20 as stated: the two oeneg terms change the score by a net +0.65, and
\* when total liabilities cannot be resolved the score is the one with
\* tlta = 0 and oeneg = 0.
C20_OenegTwiceAndZero ==
    OScorePresent =>
       /\ OenegNet065
       /\ IsProblematic(OLiabilities(company))
             => ret.o_score = OGivenFor(company, PyZero, PyZero)

\* C20: the two oeneg terms (+2.37 and -1.72) change the score by a net
\* +0.65 when total liabilities exceed total assets; when total liabilities
\* cannot be resolved tlta is 0, and oeneg is 0 when total assets are
\* positive and 1 when they are negative (the sentinel 0 exceeds them).
C20_OenegTwice ==
    OScorePresent =>
       /\ OenegNet065
       /\ IsProblematic(OLiabilities(company))
             => ret.o_score =
                   OGivenFor(company, PyZero,
                             IF Positive(OTotalAssets(company).value)
                             THEN PyZero ELSE Py(1, 0))

\* total liabilities resolved and above total assets: the score is 0.65
\* above the one without the oeneg terms
C20_Witness ==
    /\ OScorePresent
    /\ ~IsProblematic(OLiabilities(company))
    /\ LiabilitiesExceedAssets(company)
    /\ Positive(OTotalAssets(company).value)
    /\ Near(FSub(ret.o_score, OGivenFor(company, OTlta(company), PyZero)), Py(65, -2))


(***************************************************************************)
(* C16: check_session answers True exactly when the session is marked      *)
(* authenticated, has a login_time, and no more than timeout_minutes have  *)
(* passed since login_time; an accepted check sets login_time to the       *)
(* current time, so login_time is always the time of the last accepted     *)
(* activity and a session whose checks are never more than the timeout     *)
(* apart is accepted however long ago the login was.                       *)
(***************************************************************************)
SessionLive ==
    /\ session_state["authenticated"]
    /\ session_state["login_time"] # NoTime
    /\ now - session_state["login_time"][1] <= timeout_minutes

C16_Step ==
    (pc = "r_check" /\ pc' # "r_check") =>
        /\ (check' = "ok") <=> SessionLive
        /\ check' = "ok" => session_state'["login_time"] = At(now)
        /\ (activity.seen # NoTime /\ session_state["authenticated"]
             /\ now - activity.seen[1] <= timeout_minutes) => check' = "ok"

C16_LoginTimeIsLastActivity ==
    (~Offline /\ pc # "idle" /\ session_state["authenticated"]) =>
        session_state["login_time"] = activity.seen

C16_SlidingTimeout == []C16_LoginTimeIsLastActivity /\ [][C16_Step]_vars

\* a check accepted more than the timeout after the login
C16_Witness ==
    /\ check = "ok"
    /\ pc = "r_logout"
    /\ activity.login # NoTime
    /\ now - activity.login[1] > timeout_minutes


(***************************************************************************)
(* C17: the header, the sidebar, the search section and the analysis are   *)
(* reached only in a run whose check_session answered True; in a run whose *)
(* check answered False only the login page is rendered and the run stops  *)
(* there.                                                                  *)
(***************************************************************************)
AppParts ==
    {"header", "sidebar", "search", "warning", "analysis", "gauges", "cards",
     "metrics", "z_notes", "o_notes", "merton_notes", "error", "footer"}

AppPositions ==
    {"r_logout", "r_header", "r_sidebar", "r_search", "r_warning", "r_analysis",
     "r_scores", "r_notes", "r_error", "r_footer"}

C17_LoginGate ==
    /\ (rendered \cap AppParts # {} \/ pc \in AppPositions) => check = "ok"
    /\ check = "refused" =>
          /\ rendered \subseteq {"login"}
          /\ pc \in {"r_login", "r_form", "idle", "rerun"}
    /\ "login" \in rendered => check = "refused"

\* a refused run that showed the login page and was stopped
C17_Witness == check = "refused" /\ rendered = {"login"} /\ pc = "idle"

(***************************************************************************)
(* C21: every score shown on a risk card falls in exactly one of the bands *)
(* the sidebar documents, and the card shows that band, at the boundaries  *)
(* too: Z-score > 2.99 Safe Zone, 1.81 to 2.99 Grey Zone, < 1.81 Distress  *)
(* Zone; probability of default < 30% Low Risk, 30% to 70% Moderate Risk,  *)
(* > 70% High Risk.                                                        *)
(***************************************************************************)
CardShown(k) == k \in DOMAIN cards

C21_BandsAsDocumented ==
    /\ CardShown("z_score") =>
          SidebarZBands(scores.z_score) = {cards["z_score"].status}
    /\ CardShown("prob_default") =>
          SidebarProbBands(scores.prob_default) = {cards["prob_default"].status}

\* away from the two lower/upper boundaries 1.81 and 70% the card agrees
\* with the sidebar
C21_AgreeOffBoundary ==
    /\ (CardShown("z_score") /\ ~FEq(scores.z_score, Py(181, -2))) =>
          SidebarZBands(scores.z_score) = {cards["z_score"].status}
    /\ (CardShown("prob_default") /\ ~FEq(scores.prob_default, Py(7, -1))) =>
          SidebarProbBands(scores.prob_default) = {cards["prob_default"].status}

(***************************************************************************)
(* C22: in calculate_ohlson_score, whenever the net income of the previous *)
(* period is not available (the income statement has no second period, or *)
(* the value there is problematic), intwo and chin are both 0 and the note *)
(* "Previous year's data not available" is recorded.                       *)
(***************************************************************************)
PrevNetIncomeMissing(c) ==
    ~\E j \in 1..Len(NetIncomeKeys) : Qualifies(c.income_stmt, NetIncomeKeys[j], 1)

PrevNote == "Previous year's data not available"

OChangeDone(c) == OChange(c, ONetIncome(c).value)

C22_PrevMissingMeansZero ==
    (pc = "o_done" /\ ret.o_score # None /\ PrevNetIncomeMissing(company)) =>
        /\ OChangeDone(company).intwo = PyZero
        /\ OChangeDone(company).chin = PyZero
        /\ Has(substituted_values, PrevNote)

\* what the code does: the zeros and the note come only when the division
\* raises, which is when the current net income is the sentinel 0 as well
C22_ZeroOnlyOnRaise ==
    (pc = "o_done" /\ ret.o_score # None /\ PrevNetIncomeMissing(company)) =>
        (Has(substituted_values, PrevNote)
            <=> ONetIncome(company).value = PyZero)

(***************************************************************************)
(* C23: every run of main that passed the login gate and ran to its end    *)
(* has rendered the footer, whatever the search and the analysis did: no   *)
(* analysis requested, an analysis requested with an empty ticker, an      *)
(* analysis that succeeded, or one whose exception the per-ticker          *)
(* catch-all caught.                                                       *)
(***************************************************************************)
RunEnded == pc = "idle" /\ check = "ok"

C23_FooterAlways == RunEnded => "footer" \in rendered

\* the one way to the end of a run without the footer is the return after
\* the warning about the empty ticker
C23_FooterUnlessWarning == RunEnded => ("footer" \in rendered <=> "warning" \notin rendered)

(***************************************************************************)
(* C24: a check_session that finds more than the timeout since login_time  *)
(* logs the session out in full (authenticated False, login_time None,     *)
(* user_email removed) and answers False; from then on every check         *)
(* answers False, however soon it is made, until a login with valid        *)
(* credentials succeeds.                                                   *)
(***************************************************************************)
LoggedOut ==
    /\ ~session_state["authenticated"]
    /\ session_state["login_time"] = NoTime
    /\ "user_email" \notin DOMAIN session_state

Expired == activity.expired # NoTime

\* the check that finds the session idle for too long
C24_ExpiryStep ==
    (/\ pc = "r_check" /\ pc' # "r_check"
     /\ session_state["authenticated"]
     /\ session_state["login_time"] # NoTime
     /\ now - session_state["login_time"][1] > timeout_minutes) =>
        /\ check' = "refused"
        /\ activity'.expired = At(now)
        /\ LoggedOut'

\* an expired session leaves that condition only by a successful login
C24_OnlyLoginRevives ==
    (Expired /\ ~Expired') =>
        /\ pc = "r_form" /\ pc' = "rerun"
        /\ session_state'["authenticated"]
        /\ session_state'["user_email"] \in DOMAIN users

C24_ExpiredStaysOut == Expired => (LoggedOut /\ check # "ok")

C24_ExpiryIsFullLogout ==
    /\ []C24_ExpiredStaysOut
    /\ [][C24_ExpiryStep /\ C24_OnlyLoginRevives]_vars

\* a check refused some time after the one that expired the session
C24_Witness ==
    /\ Expired
    /\ check = "refused"
    /\ pc = "r_login"
    /\ now > activity.expired[1]

(***************************************************************************)
(* C25: after any sequence of login, logout and check_session calls on a   *)
(* session, authenticated = True implies that login_time is set and that   *)
(* user_email is present and is a key of the credential table;             *)
(* authenticated = False implies that login_time is None and that          *)
(* user_email is absent.                                                   *)
(***************************************************************************)
C25_SessionConsistent ==
    ~Offline =>
        IF session_state["authenticated"]
        THEN /\ session_state["login_time"] # NoTime
             /\ "user_email" \in DOMAIN session_state
             /\ session_state["user_email"] \in DOMAIN users
        ELSE /\ session_state["login_time"] = NoTime
             /\ "user_email" \notin DOMAIN session_state

\* a session that a check has expired and that was then logged in again, as
\* the other user
C25_Witness ==
    /\ pc = "api"
    /\ check = "refused"
    /\ ret.call = "login"
    /\ ret.result
    /\ now > timeout_minutes
    /\ session_state["login_time"] = At(now)
    /\ session_state["user_email"] = "admin@example.com"

(***************************************************************************)
(* C26: login(email, password) returns True, and sets authenticated,       *)
(* login_time and user_email, exactly when the email is in the credential  *)
(* table and the password hashes to the hash stored for it; on an unknown  *)
(* email or a wrong password it returns False and leaves the session as it *)
(* was, also when another user is logged in.                               *)
(***************************************************************************)
ValidCredentials(email, password) ==
    /\ email \in DOMAIN users
    /\ hash_password(password) = users[email]

LoggedInAs(ss, email, t) ==
    /\ ss["authenticated"]
    /\ ss["login_time"] = At(t)
    /\ ss["user_email"] = email
    /\ \A k \in DOMAIN ss \ {"authenticated", "login_time", "user_email"} :
          k \in DOMAIN session_state /\ ss[k] = session_state[k]

\* a step that is a call of login
C26_Step ==
    (pc = "api" /\ pc' = "api" /\ now' = now /\ ret'.call = "login") =>
        /\ ret'.result <=> ValidCredentials(ret'.email, ret'.password)
        /\ ret'.result => LoggedInAs(session_state', ret'.email, now)
        /\ ~ret'.result => session_state' = session_state

C26_LoginIffValid == [][C26_Step]_vars

\* a login refused while another user is logged in
C26_Witness ==
    /\ pc = "api"
    /\ ret.call = "login"
    /\ ~ret.result
    /\ ret.email = "admin@example.com"
    /\ session_state["authenticated"]
    /\ session_state["user_email"] = "demo@example.com"

(***************************************************************************)
(* C27: the should_analyze flag of the session is one-shot.  Only          *)
(* handle_suggestion_click sets it; a render_search_section that returns   *)
(* answers analyze = True exactly when the flag was set or the Analyze     *)
(* button is pressed, and leaves the flag False: so the runs after it      *)
(* answer False unless the button is pressed or a suggestion is clicked    *)
(* again, and one click triggers at most one analysis.                     *)
(***************************************************************************)
Flag(ss) == "should_analyze" \in DOMAIN ss /\ ss["should_analyze"]

SearchReturns == pc = "r_search" /\ pc' \in {"r_footer", "r_warning", "r_analysis"}

C27_Step ==
    /\ SearchReturns =>
          /\ should_analyze' <=> (widgets'.analyze_button \/ Flag(session_state))
          /\ ~Flag(session_state')
    /\ (Flag(session_state') /\ ~Flag(session_state)) =>
          /\ pc = "r_search" /\ pc' = "rerun"
          /\ widgets'.clicked

C27_FlagIsOneShot == [][C27_Step]_vars

\* an analysis that the flag triggered, the button not being pressed; the
\* flag is down again
C27_Witness ==
    /\ pc = "r_analysis"
    /\ should_analyze
    /\ ~widgets.analyze_button
    /\ ~Flag(session_state)

(***************************************************************************)
(* C28: when an analysis is triggered, the ticker is the symbol of the     *)
(* selected company if one is selected, otherwise the text before the      *)
(* first " - " of the current query with the whitespace around it          *)
(* stripped; when neither gives a non-empty ticker, main shows the warning *)
(* and calls none of the three calculators.                                *)
(***************************************************************************)
Spaces(n) == [j \in 1..n |-> " "]

\* p is what stands in q before the first " - "
IsBeforeFirstSep(p, q) ==
    \E n \in 0..Len(q) :
        /\ p = SubSeq(q, 1, n)
        /\ \A k \in 1..n : k + 2 > Len(q) \/ SubSeq(q, k, k + 2) # Sep
        /\ \/ n + 3 <= Len(q) /\ SubSeq(q, n + 1, n + 3) = Sep
           \/ n = Len(q) /\ (n < 3 \/ \A k \in 1..(n - 2) : SubSeq(q, k, k + 2) # Sep)

\* t is p without the spaces at its two ends
IsStripped(t, p) ==
    /\ t = <<>> \/ (t[1] # " " /\ t[Len(t)] # " ")
    /\ \E l \in 0..Len(p), r \in 0..Len(p) : p = Spaces(l) \o t \o Spaces(r)

EmptyTicker == ticker = NoTicker \/ ticker = Ticker(<<>>)

C28_TickerChosen ==
    should_analyze =>
        IF session_state["selected_company"] # NoSelection
        THEN ticker = Ticker(session_state["selected_company"][1].symbol)
        ELSE IF widgets.current_query # <<>>
        THEN /\ ticker # NoTicker
             /\ \E n \in 0..Len(widgets.current_query) :
                   /\ IsBeforeFirstSep(SubSeq(widgets.current_query, 1, n),
                                       widgets.current_query)
                   /\ IsStripped(ticker[1], SubSeq(widgets.current_query, 1, n))
        ELSE ticker = NoTicker

C28_NoTickerNoAnalysis ==
    /\ (should_analyze /\ EmptyTicker) => (pc = "r_warning" /\ scores = NoScores)
    /\ "warning" \in rendered =>
          /\ pc = "idle"
          /\ rendered \cap {"analysis", "gauges", "cards", "error", "footer"} = {}

C28_TickerAnalysed == C28_TickerChosen /\ C28_NoTickerNoAnalysis

\* no company selected: the ticker "A" is taken out of the query
\* " A - B - C", and analysed
C28_Witness ==
    /\ pc = "r_analysis"
    /\ session_state["selected_company"] = NoSelection
    /\ widgets.current_query = Padded
    /\ ticker = Ticker(<<"A">>)

\* the warning shown for a query of one blank
C28_WitnessWarning ==
    /\ pc = "r_warning"
    /\ widgets.current_query = Blank
    /\ ticker = Ticker(<<>>)

(***************************************************************************)
(* C29: in main the gauges, the risk cards and the data-quality notes of   *)
(* the three calculators are rendered only when at least one of the three  *)
(* scores is not None; when all three are None, none of the problematic or *)
(* substituted notes is shown.                                             *)
(***************************************************************************)
ResultParts == {"gauges", "cards", "metrics", "z_notes", "o_notes", "merton_notes"}

AllScoresAbsent ==
    /\ scores.outcome = "returned"
    /\ scores.z_score = None
    /\ scores.prob_default = None
    /\ scores.merton_prob = None

\* C29 while main runs (its locals are gone once it has returned)
C29_ResultsNeedAScore ==
    /\ (pc # "idle" /\ rendered \cap ResultParts # {}) =>
          (scores.outcome = "returned" /\ ~AllScoresAbsent)
    /\ cards # NoCards => ~AllScoresAbsent
    /\ AllScoresAbsent => pc \in {"r_scores", "r_footer"}

\* three absent scores with notes from each calculator: the run is at the
\* footer and has shown none of them
C29_Witness ==
    /\ pc = "r_footer"
    /\ AllScoresAbsent
    /\ scores.notes = {"z_notes", "o_notes", "merton_notes"}
    /\ rendered \cap ResultParts = {}

====
